---- MODULE Spec2Model ----
(***************************************************************************)
(* A model of json11 (src/json11.h, src/json11.cpp): the tagged Value, its *)
(* serializer, comparison operators and shape check, the recursive-descent *)
(* JsonParser as a step machine with an explicit stack of container        *)
(* frames, and the manual payload ownership of Value on a heap.            *)
(*                                                                         *)
(* Text is a sequence of bytes 0..255.  The cursor i is 0-based as in the  *)
(* source; str[i] of the source is At(str, i) here.                        *)
(*                                                                         *)
(* Spec, SpecDepth, SpecRound, SpecMulti, SpecNumber and SpecString run    *)
(* the parser on different families of texts, SpecLive runs it to          *)
(* completion under weak fairness; SpecValue runs the comparison operators *)
(* and has_shape, SpecAccess the const accessors; SpecHeap runs            *)
(* construction, copy, move, append and destruction of Value objects,      *)
(* SpecMutate runs operator[] and append on a receiver of every tag.       *)
(***************************************************************************)
EXTENDS Integers, Sequences, FiniteSets, TLC

VARIABLES
    str, i, err, failed,      \* JsonParser: input, cursor, error message, sticky flag
    stack, depth, pc, ret,    \* parse_json activations: frames, depth argument, position, returned Value
    mode, vals, result,       \* which entry point runs; parse_multi's vector; parse's return value
    doc,                      \* what the input text was built from (input bookkeeping)
    lhs, rhs, third, shape,   \* operands of the comparison operators and of has_shape
    cmp, hs, acc,             \* what the comparison operators / has_shape / the accessors returned
    slots, heap, last         \* Value objects of a client, the payloads they own, the last operation

parserVars == <<str, i, err, failed, stack, depth, pc, ret, mode, vals, result, doc>>
valueVars == <<lhs, rhs, third, shape, cmp, hs, acc>>
heapVars == <<slots, heap, last>>
vars == <<parserVars, valueVars, heapVars>>

(***************************************************************************)
(* Program constants                                                       *)
(***************************************************************************)
max_depth == 200
digits10 == 9

CH_TAB == 9
CH_LF == 10
CH_CR == 13
CH_SPACE == 32
CH_QUOTE == 34
CH_PLUS == 43
CH_COMMA == 44
CH_MINUS == 45
CH_DOT == 46
CH_SLASH == 47
CH_0 == 48
CH_1 == 49
CH_9 == 57
CH_COLON == 58
CH_UPPER_A == 65
CH_UPPER_E == 69
CH_UPPER_F == 70
CH_LBRACKET == 91
CH_BACKSLASH == 92
CH_RBRACKET == 93
CH_a == 97
CH_b == 98
CH_e == 101
CH_f == 102
CH_i == 105
CH_l == 108
CH_n == 110
CH_r == 114
CH_s == 115
CH_t == 116
CH_u == 117
CH_LBRACE == 123
CH_RBRACE == 125
CH_BS == 8
CH_FF == 12

(***************************************************************************)
(* Value: the tagged union.  The payload field is named after the union    *)
(* member that is active for the tag (b_, l_, d_, s_, a_, o_).  A double   *)
(* is a finite decimal m * 10^e kept normalised (m not divisible by 10, or *)
(* m = 0 and e = 0); an Object payload is the std::map as the sequence of  *)
(* its <<key, value>> pairs in key order.                                  *)
(***************************************************************************)
TypeRank(t) ==
    CASE t = "NUL" -> 0
      [] t = "INTEGER" -> 1
      [] t = "NUMBER" -> 2
      [] t = "BOOL" -> 3
      [] t = "STRING" -> 4
      [] t = "ARRAY" -> 5
      [] t = "OBJECT" -> 6

Null == [type |-> "NUL"]
Integer(l) == [type |-> "INTEGER", l |-> l]
Number(d) == [type |-> "NUMBER", d |-> d]
Bool(b) == [type |-> "BOOL", b |-> b]
String(s) == [type |-> "STRING", s |-> s]
ArrayOf(a) == [type |-> "ARRAY", a |-> a]
ObjectOf(o) == [type |-> "OBJECT", o |-> o]

type(v) == v.type
is_null(v) == type(v) = "NUL"
is_number(v) == type(v) = "NUMBER" \/ type(v) = "INTEGER"
is_bool(v) == type(v) = "BOOL"
is_string(v) == type(v) = "STRING"
is_array(v) == type(v) = "ARRAY"
is_object(v) == type(v) = "OBJECT"

(***************************************************************************)
(* Numbers.  A long or a double mantissa can exceed the integers TLC       *)
(* computes with, so a natural number of any size is the sequence of its   *)
(* decimal digits, most significant first, without leading zeros (0 is     *)
(* the empty sequence).                                                    *)
(*                                                                         *)
(* Only({F(x) : x \in {e}}) is F(e): written this way TLC computes e once  *)
(* and before F, however often F uses x.                                   *)
(***************************************************************************)
Abs(x) == IF x < 0 THEN -x ELSE x
Min(x, y) == IF x < y THEN x ELSE y
Max(x, y) == IF x < y THEN y ELSE x
Only(S) == CHOOSE x \in S : TRUE

RECURSIVE Pow2(_)
Pow2(k) == IF k = 0 THEN 1 ELSE 2 * Pow2(k - 1)

RECURSIVE Pow5(_)
Pow5(k) == IF k = 0 THEN 1 ELSE 5 * Pow5(k - 1)

\* a without its leading zeros
BigTrim(a0) ==
    Only({IF \A j \in 1..Len(a) : a[j] = 0 THEN <<>>
          ELSE SubSeq(a, CHOOSE j \in 1..Len(a) :
                             a[j] # 0 /\ \A k \in 1..(j - 1) : a[k] = 0, Len(a))
          : a \in {a0}})

RECURSIVE BigOfNat(_)
BigOfNat(n) == IF n = 0 THEN <<>> ELSE Append(BigOfNat(n \div 10), n % 10)

\* the number a short digit sequence denotes
RECURSIVE BigToNat(_, _)
BigToNat(a, pos) == IF pos = 0 THEN 0 ELSE BigToNat(a, pos - 1) * 10 + a[pos]

\* a[lo..hi] * k + c: its last hi - lo + 1 digits and what is carried.  The
\* right half comes first and hands its carry to the left half.
RECURSIVE BigMulRange(_, _, _, _, _)
BigMulRange(a, k, c, lo, hi) ==
    IF lo = hi
    THEN Only({[d |-> <<v % 10>>, carry |-> v \div 10] : v \in {a[lo] * k + c}})
    ELSE Only({Only({Only({[d |-> left.d \o right.d, carry |-> left.carry]
                           : left \in {BigMulRange(a, k, right.carry, lo, mid)}})
                     : right \in {BigMulRange(a, k, c, mid + 1, hi)}})
               : mid \in {(lo + hi) \div 2}})

\* a * k + c, for 1 <= k <= 10^8 and 0 <= c <= 10^8
BigMulAdd(a0, k0, c0) ==
    Only({IF a = <<>> THEN BigOfNat(c)
          ELSE Only({BigOfNat(r.carry) \o r.d : r \in {BigMulRange(a, k, c, 1, Len(a))}})
          : a \in {a0}, k \in {k0}, c \in {c0}})

\* a[lo..hi] - c: its digits and what is borrowed from the left
RECURSIVE BigSubRange(_, _, _, _)
BigSubRange(a, c, lo, hi) ==
    IF lo = hi
    THEN Only({[d |-> <<a[lo] + 10 * borrow - c>>, borrow |-> borrow]
               : borrow \in {IF c > a[lo] THEN (c - a[lo] + 9) \div 10 ELSE 0}})
    ELSE Only({Only({Only({[d |-> left.d \o right.d, borrow |-> left.borrow]
                           : left \in {BigSubRange(a, right.borrow, lo, mid)}})
                     : right \in {BigSubRange(a, c, mid + 1, hi)}})
               : mid \in {(lo + hi) \div 2}})

\* a - c for a small c <= a
BigSub(a0, c0) ==
    Only({IF a = <<>> THEN a ELSE BigTrim(BigSubRange(a, c, 1, Len(a)).d)
          : a \in {a0}, c \in {c0}})

\* (r * 10^n + a[lo..hi]) divided by k, n = hi - lo + 1, r < k <= 2 * 10^8:
\* the n digits of the quotient and the remainder.  The left half comes
\* first and hands its remainder to the right half.
RECURSIVE BigDivRange(_, _, _, _, _)
BigDivRange(a, k, r, lo, hi) ==
    IF lo = hi
    THEN Only({[q |-> <<v \div k>>, r |-> v % k] : v \in {r * 10 + a[lo]}})
    ELSE Only({Only({Only({[q |-> left.q \o right.q, r |-> right.r]
                           : right \in {BigDivRange(a, k, left.r, mid + 1, hi)}})
                     : left \in {BigDivRange(a, k, r, lo, mid)}})
               : mid \in {(lo + hi) \div 2}})

\* quotient and remainder of a by k, for 1 <= k <= 2 * 10^8
BigDivMod(a0, k0) ==
    Only({IF a = <<>> THEN [q |-> <<>>, r |-> 0]
          ELSE Only({[q |-> BigTrim(x.q), r |-> x.r] : x \in {BigDivRange(a, k, 0, 1, Len(a))}})
          : a \in {a0}, k \in {k0}})

BigIsOdd(a0) == Only({a # <<>> /\ a[Len(a)] % 2 = 1 : a \in {a0}})

BigLess(a0, b0) ==
    Only({\/ Len(a) < Len(b)
          \/ /\ Len(a) = Len(b)
             /\ \E j \in 1..Len(a) : a[j] < b[j] /\ \A k \in 1..(j - 1) : a[k] = b[k]
          : a \in {a0}, b \in {b0}})

\* about half of n > c, in steps of c
HalfSteps(n, c) == c * ((n \div c + 1) \div 2)

\* a * 2^n: 26 factors at a time, one half of them after the other
RECURSIVE BigShiftLeft(_, _)
BigShiftLeft(a0, n0) ==
    Only({IF n = 0 \/ a = <<>> THEN a
          ELSE IF n <= 26 THEN BigMulAdd(a, Pow2(n), 0)
          ELSE BigShiftLeft(BigShiftLeft(a, HalfSteps(n, 26)), n - HalfSteps(n, 26))
          : a \in {a0}, n \in {n0}})

\* a * 5^n: 11 factors at a time
RECURSIVE BigMulPow5(_, _)
BigMulPow5(a0, n0) ==
    Only({IF n = 0 \/ a = <<>> THEN a
          ELSE IF n <= 11 THEN BigMulAdd(a, Pow5(n), 0)
          ELSE BigMulPow5(BigMulPow5(a, HalfSteps(n, 11)), n - HalfSteps(n, 11))
          : a \in {a0}, n \in {n0}})

\* a \div 2^n, and whether a bit that is 1 was shifted out (or sticky was set)
RECURSIVE BigShiftRight(_, _, _)
BigShiftRight(a0, n0, sticky0) ==
    Only({IF n <= 0 \/ a = <<>> THEN [n |-> a, sticky |-> sticky]
          ELSE IF n <= 26
          THEN Only({[n |-> dm.q, sticky |-> sticky \/ dm.r # 0]
                     : dm \in {BigDivMod(a, Pow2(n))}})
          ELSE Only({BigShiftRight(first.n, n - HalfSteps(n, 26), first.sticky)
                     : first \in {BigShiftRight(a, HalfSteps(n, 26), sticky)}})
          : a \in {a0}, n \in {n0}, sticky \in {sticky0}})

RECURSIVE SmallBitLen(_)
SmallBitLen(n) == IF n = 0 THEN 0 ELSE 1 + SmallBitLen(n \div 2)

\* the number of binary digits of a: a number of L decimal digits has more
\* than 3 * (L - 1) binary digits
RECURSIVE BitLen(_)
BitLen(a0) ==
    Only({IF Len(a) <= 8 THEN SmallBitLen(BigToNat(a, Len(a)))
          ELSE 3 * (Len(a) - 1) + BitLen(BigShiftRight(a, 3 * (Len(a) - 1), FALSE).n)
          : a \in {a0}})

(***************************************************************************)
(* double: IEEE 754 binary64.  A finite double that is not zero is         *)
(* [neg, m, e], the number m * 2^e with its sign, m odd and below 2^53,    *)
(* -1074 <= e, m * 2^e < 2^1024; the two zeros and the two infinities      *)
(* carry their sign.  (No NaN: neither the parser nor a number literal     *)
(* makes one.)                                                             *)
(***************************************************************************)
Zero(neg) == [neg |-> neg, m |-> <<>>, e |-> 0, inf |-> FALSE]
Inf(neg) == [neg |-> neg, m |-> <<>>, e |-> 0, inf |-> TRUE]
IsZero(d) == ~d.inf /\ d.m = <<>>

\* m * 2^e (m > 0) with the factors 2 of m moved to the exponent: for a
\* small m one at a time
RECURSIVE SmallDyadic(_, _, _)
SmallDyadic(neg, m0, e0) ==
    Only({IF m % 2 = 0 THEN SmallDyadic(neg, m \div 2, e + 1)
          ELSE [neg |-> neg, m |-> BigOfNat(m), e |-> e, inf |-> FALSE]
          : m \in {m0}, e \in {e0}})

\* and for any m > 0, c at a time down to one at a time
RECURSIVE Dyadic(_, _, _, _)
Dyadic(neg, m0, e0, c0) ==
    Only({IF Len(m) <= 9 THEN SmallDyadic(neg, BigToNat(m, Len(m)), e)
          ELSE Only({IF dm.r = 0 THEN Dyadic(neg, dm.q, e + c, c)
                     ELSE IF c = 1 THEN [neg |-> neg, m |-> m, e |-> e, inf |-> FALSE]
                     ELSE Dyadic(neg, m, e, c \div 2)
                     : dm \in {BigDivMod(m, Pow2(c))}})
          : m \in {m0}, e \in {e0}, c \in {c0}})

\* n \div 2^shift rounded to nearest, a tie going to the even number
RoundShift(n, shift) ==
    Only({Only({IF half.r = 1 /\ (low.sticky \/ BigIsOdd(half.q))
                THEN BigMulAdd(half.q, 1, 1) ELSE half.q
                : half \in {BigDivMod(low.n, 2)}})
          : low \in {BigShiftRight(n, shift - 1, FALSE)}})

\* the double nearest to n * 2^e2 (n > 0), a tie going to the even mantissa:
\* 53 bits are kept, fewer below 2^-1022 where the last bit is 2^-1074; what
\* rounds to 2^1024 or more is an infinity.  top: 2^(top-1) <= n * 2^e2 <
\* 2^top; q: the exponent of the last bit kept
RoundToDouble(neg, n0, e20) ==
    Only({Only({Only({Only({IF top < -1074 \/ kept = <<>> THEN Zero(neg)
                            ELSE IF BitLen(kept) + Max(q, e2) > 1024 THEN Inf(neg)
                            ELSE Dyadic(neg, kept, Max(q, e2), 16)
                            : kept \in {IF q <= e2 \/ top < -1074 THEN n
                                        ELSE RoundShift(n, q - e2)}})
                      : q \in {Max(top - 53, -1074)}})
                : top \in {BitLen(n) + e2}})
          : n \in {n0}, e2 \in {e20}})

\* the double nearest to p * 10^e10.  Beyond 10^310 and below 10^-324 the
\* result is known from the size alone; a negative exponent -k divides
\* p * 2^s by 10^k, s large enough for a quotient of more than 64 bits, and
\* a remainder that is not 0 is kept as one more bit that is 1
decimal_to_double(neg, p0, e0) ==
    Only({IF p = <<>> THEN Zero(neg)
          ELSE IF Len(p) + e10 > 310 THEN Inf(neg)
          ELSE IF Len(p) + e10 < -324 THEN Zero(neg)
          ELSE IF e10 >= 0 THEN RoundToDouble(neg, BigMulPow5(p, e10), e10)
          ELSE Only({RoundToDouble(neg,
                         BigMulAdd(SubSeq(num, 1, Len(num) + e10), 2,
                                   IF \E j \in (Len(num) + e10 + 1)..Len(num) : num[j] # 0
                                   THEN 1 ELSE 0),
                         4 * e10 - 65)
                     : num \in {BigShiftLeft(p, 64 - 4 * e10)}})
          : p \in {p0}, e10 \in {e0}})

\* the double a decimal literal m * 10^e of the client's code denotes
Dec(m, e) == decimal_to_double(m < 0, BigOfNat(Abs(m)), e)

\* |x| < |y| for two numbers m * 2^e that are not zero: by the position of
\* the first bit, then by the mantissas on the smaller exponent
MagLess(x, y) ==
    Only({IF t[1] # t[2] THEN t[1] < t[2]
          ELSE BigLess(BigShiftLeft(x.m, x.e - Min(x.e, y.e)),
                       BigShiftLeft(y.m, y.e - Min(x.e, y.e)))
          : t \in {<<BitLen(x.m) + x.e, BitLen(y.m) + y.e>>}})

\* |x| < |y| for two doubles that differ
AbsLess(x, y) ==
    IF x.inf THEN FALSE
    ELSE IF y.inf THEN TRUE
    ELSE IF IsZero(y) THEN FALSE
    ELSE IF IsZero(x) THEN TRUE
    ELSE MagLess(x, y)

\* x == y on doubles: the two zeros are equal
double_eq(x0, y0) == Only({x = y \/ (IsZero(x) /\ IsZero(y)) : x \in {x0}, y \in {y0}})

\* x < y on doubles
double_less(x0, y0) ==
    Only({IF x = y \/ (IsZero(x) /\ IsZero(y)) THEN FALSE
          ELSE IF x.neg # y.neg THEN x.neg
          ELSE IF x.neg THEN AbsLess(y, x)
          ELSE AbsLess(x, y)
          : x \in {x0}, y \in {y0}})

(***************************************************************************)
(* long: 64 bits.  Integer(l) holds a long within the integers of TLC, a   *)
(* Value holding any other long has the field wide, sign and magnitude.    *)
(***************************************************************************)
Two31 == <<2, 1, 4, 7, 4, 8, 3, 6, 4, 8>>
Two53Big == <<9, 0, 0, 7, 1, 9, 9, 2, 5, 4, 7, 4, 0, 9, 9, 2>>
Two63 == <<9, 2, 2, 3, 3, 7, 2, 0, 3, 6, 8, 5, 4, 7, 7, 5, 8, 0, 8>>

\* Value(long) of the long -mag or mag
Long(neg, mag0) ==
    Only({IF BigLess(mag, Two31)
          THEN Integer(IF neg THEN -BigToNat(mag, Len(mag)) ELSE BigToNat(mag, Len(mag)))
          ELSE [type |-> "INTEGER", wide |-> [neg |-> neg, mag |-> mag]]
          : mag \in {mag0}})

IsBig(v) == "wide" \in DOMAIN v

LONG_MIN == Long(TRUE, Two63)
LONG_MAX == Long(FALSE, BigSub(Two63, 1))

\* Value(long) and Value(double) of 2^53 + k, where (double) of a long starts
\* to round (|k| < 10^8)
BigInteger(k) == Long(FALSE, IF k < 0 THEN BigSub(Two53Big, -k) ELSE BigMulAdd(Two53Big, 1, k))
Two53(k) ==
    RoundToDouble(FALSE, IF k < 0 THEN BigSub(Two53Big, -k) ELSE BigMulAdd(Two53Big, 1, k), 0)

\* (double) of the long a Value holds: the nearest double
long_to_double(v) ==
    IF IsBig(v) THEN RoundToDouble(v.wide.neg, v.wide.mag, 0)
    ELSE IF v.l = 0 THEN Zero(FALSE)
    ELSE RoundToDouble(v.l < 0, BigOfNat(Abs(v.l)), 0)

(***************************************************************************)
(* Text helpers                                                            *)
(***************************************************************************)
\* str[k] of a std::string: the terminating NUL at k = size
At(s, k) == IF k < Len(s) THEN s[k + 1] ELSE 0

\* a byte read as a (signed) char and widened, as in in_range(ch, ...)
SChar(c) == IF c >= 128 THEN c - 256 ELSE c

\* std::string::substr(pos, n)
substr(s, pos, n) == SubSeq(s, pos + 1, Min(pos + n, Len(s)))

in_range(x, lower, upper) == x >= lower /\ x <= upper

\* esc(c): the character as it is formatted into an error message
esc(c) == <<c>>

\* an error message: its fixed text and the text formatted into it
Msg(text, arg) == [text |-> text, arg |-> arg]
NoMsg == Msg("", <<>>)

TRUE_LIT == <<CH_t, CH_r, CH_u, CH_e>>
FALSE_LIT == <<CH_f, CH_a, CH_l, CH_s, CH_e>>
NULL_LIT == <<CH_n, CH_u, CH_l, CH_l>>

(***************************************************************************)
(* JsonParser.  A parser state p is [i, err, failed]; the helpers take the *)
(* text s and p and return the new p (with what they return).             *)
(***************************************************************************)
failAlways(p, msg) == [p EXCEPT !.err = msg, !.failed = TRUE]

fail(p, msg) == [p EXCEPT !.err = IF p.failed THEN @ ELSE msg, !.failed = TRUE]

RECURSIVE consume_whitespace(_, _)
consume_whitespace(s, k) ==
    IF At(s, k) = CH_SPACE \/ At(s, k) = CH_CR \/ At(s, k) = CH_LF \/ At(s, k) = CH_TAB
    THEN consume_whitespace(s, k + 1)
    ELSE k

\* a get_next_token that does not test for the end of the input
get_next_token_unchecked(s, p) ==
    LET k == consume_whitespace(s, p.i)
    IN  [p |-> [p EXCEPT !.i = k + 1], ch |-> At(s, k)]

get_next_token(s, p) ==
    LET k == consume_whitespace(s, p.i)
    IN  IF k = Len(s)
        THEN [p |-> fail([p EXCEPT !.i = k], Msg("unexpected end of input", <<>>)), ch |-> 0]
        ELSE [p |-> [p EXCEPT !.i = k + 1], ch |-> At(s, k)]

\* an encoder that knows the Basic Multilingual Plane only
encode_utf8_bmp(pt, out) ==
    IF pt < 0 THEN out
    ELSE IF pt < 128 THEN Append(out, pt)
    ELSE IF pt < 2048 THEN out \o <<(pt \div 64) + 192, (pt % 64) + 128>>
    ELSE out \o <<((pt \div 4096) % 16) + 224, ((pt \div 64) % 64) + 128, (pt % 64) + 128>>

encode_utf8(pt, out) ==
    IF pt < 0 THEN out
    ELSE IF pt < 128 THEN Append(out, pt)
    ELSE IF pt < 2048 THEN out \o <<(pt \div 64) + 192, (pt % 64) + 128>>
    ELSE IF pt < 65536
    THEN out \o <<(pt \div 4096) + 224, ((pt \div 64) % 64) + 128, (pt % 64) + 128>>
    ELSE out \o <<(pt \div 262144) + 240, ((pt \div 4096) % 64) + 128,
                  ((pt \div 64) % 64) + 128, (pt % 64) + 128>>

IsHex(c) ==
    in_range(c, CH_a, CH_f) \/ in_range(c, CH_UPPER_A, CH_UPPER_F) \/ in_range(c, CH_0, CH_9)

HexDigit(c) ==
    IF in_range(c, CH_0, CH_9) THEN c - CH_0
    ELSE IF in_range(c, CH_a, CH_f) THEN c - CH_a + 10
    ELSE c - CH_UPPER_A + 10

\* strtol(esc.data(), nullptr, 16) of four hex digits
strtol16(h) == ((HexDigit(h[1]) * 16 + HexDigit(h[2])) * 16 + HexDigit(h[3])) * 16 + HexDigit(h[4])

RECURSIVE parse_string_loop(_, _, _, _)
parse_string_loop(s, p, out, last_escaped_codepoint) ==
    IF p.i = Len(s)
    THEN [p |-> fail(p, Msg("unexpected end of input in std::string", <<>>)), out |-> <<>>]
    ELSE
    LET ch == At(s, p.i)
        p1 == [p EXCEPT !.i = @ + 1]
    IN
    IF ch = CH_QUOTE
    THEN [p |-> p1, out |-> encode_utf8(last_escaped_codepoint, out)]
    ELSE IF in_range(SChar(ch), 0, 31)
    THEN [p |-> fail(p1, Msg("unescaped in std::string", esc(ch))), out |-> <<>>]
    ELSE IF ch # CH_BACKSLASH
    THEN parse_string_loop(s, p1, Append(encode_utf8(last_escaped_codepoint, out), ch), -1)
    ELSE IF p1.i = Len(s)
    THEN [p |-> fail(p1, Msg("unexpected end of input in std::string", <<>>)), out |-> <<>>]
    ELSE
    LET ch2 == At(s, p1.i)
        p2 == [p1 EXCEPT !.i = @ + 1]
    IN
    IF ch2 = CH_u
    THEN
        LET hex == substr(s, p2.i, 4)
        IN  IF Len(hex) < 4 \/ \E j \in 1..Len(hex) : ~IsHex(hex[j])
            THEN [p |-> fail(p2, Msg("bad \\u escape: ", hex)), out |-> <<>>]
            ELSE
            LET codepoint == strtol16(hex)
                p3 == [p2 EXCEPT !.i = @ + 4]
            IN  IF in_range(last_escaped_codepoint, 55296, 56319)
                   /\ in_range(codepoint, 56320, 57343)
                THEN parse_string_loop(s, p3,
                        encode_utf8((((last_escaped_codepoint - 55296) * 1024)
                                     + (codepoint - 56320)) + 65536, out), -1)
                ELSE parse_string_loop(s, p3,
                        encode_utf8(last_escaped_codepoint, out), codepoint)
    ELSE
    LET out2 == encode_utf8(last_escaped_codepoint, out)
    IN  IF ch2 = CH_b THEN parse_string_loop(s, p2, Append(out2, CH_BS), -1)
        ELSE IF ch2 = CH_f THEN parse_string_loop(s, p2, Append(out2, CH_FF), -1)
        ELSE IF ch2 = CH_n THEN parse_string_loop(s, p2, Append(out2, CH_LF), -1)
        ELSE IF ch2 = CH_r THEN parse_string_loop(s, p2, Append(out2, CH_CR), -1)
        ELSE IF ch2 = CH_t THEN parse_string_loop(s, p2, Append(out2, CH_TAB), -1)
        ELSE IF ch2 = CH_QUOTE \/ ch2 = CH_BACKSLASH \/ ch2 = CH_SLASH
        THEN parse_string_loop(s, p2, Append(out2, ch2), -1)
        ELSE [p |-> fail(p2, Msg("invalid escape character ", esc(ch2))), out |-> <<>>]

\* returns [p, out]: the std::string parse_string returns ("" when it fails)
parse_string(s, p) == parse_string_loop(s, p, <<>>, -1)

(***************************************************************************)
(* Numbers                                                                 *)
(***************************************************************************)
IsDigit(c) == in_range(c, CH_0, CH_9)

RECURSIVE SkipDigits(_, _)
SkipDigits(s, k) == IF IsDigit(At(s, k)) THEN SkipDigits(s, k + 1) ELSE k

\* the value of the digits s[from .. to-1], most significant first
RECURSIVE DigitsValue(_, _, _)
DigitsValue(s, from, to) ==
    IF from >= to THEN 0
    ELSE DigitsValue(s, from, to - 1) * 10 + (At(s, to - 1) - CH_0)

\* std::atol(str.c_str() + k): an optional sign, then the digits that follow
atol(s, k) ==
    LET neg == At(s, k) = CH_MINUS
        first == IF neg \/ At(s, k) = CH_PLUS THEN k + 1 ELSE k
        v == DigitsValue(s, first, SkipDigits(s, first))
    IN  IF neg THEN -v ELSE v

\* the digits of s from position from up to, not including, position to
DigitsBig(s, from, to) == BigTrim([j \in 1..(to - from) |-> At(s, from + j - 1) - CH_0])

\* the number those digits denote, or cap when it is larger
RECURSIVE DigitsValueUpTo(_, _, _, _)
DigitsValueUpTo(s, from, to, cap) ==
    IF from >= to THEN 0
    ELSE Only({IF v >= cap THEN cap ELSE v
               : v \in {DigitsValueUpTo(s, from, to - 1, cap) * 10 + (At(s, to - 1) - CH_0)}})

\* std::strtod(str.c_str() + k, nullptr) on decimal text: sign, digits, an
\* optional fraction, an optional exponent (taken only when it has a digit);
\* the result is the double nearest to the decimal number.  An exponent of
\* Len(s) + 400 or more has left the range of double whatever the digits
\* are (there are fewer than Len(s) of them), so larger ones are not told
\* apart.
strtod(s, k) ==
    LET neg == At(s, k) = CH_MINUS
        first == IF neg \/ At(s, k) = CH_PLUS THEN k + 1 ELSE k
        intEnd == SkipDigits(s, first)
        hasFrac == At(s, intEnd) = CH_DOT
        fracEnd == IF hasFrac THEN SkipDigits(s, intEnd + 1) ELSE intEnd
        nFrac == IF hasFrac THEN fracEnd - (intEnd + 1) ELSE 0
        mant == DigitsBig(s, first, intEnd) \o
                (IF hasFrac THEN [j \in 1..nFrac |-> At(s, intEnd + j) - CH_0] ELSE <<>>)
        hasE == At(s, fracEnd) = CH_e \/ At(s, fracEnd) = CH_UPPER_E
        eNeg == hasE /\ At(s, fracEnd + 1) = CH_MINUS
        eFirst == IF hasE /\ (At(s, fracEnd + 1) = CH_MINUS \/ At(s, fracEnd + 1) = CH_PLUS)
                  THEN fracEnd + 2 ELSE fracEnd + 1
        eEnd == SkipDigits(s, eFirst)
        eAbs == DigitsValueUpTo(s, eFirst, eEnd, Len(s) + 400)
        ex == IF hasE /\ eEnd > eFirst THEN (IF eNeg THEN -eAbs ELSE eAbs) ELSE 0
    IN  decimal_to_double(neg, BigTrim(mant), ex - nFrac)

\* returns [p, val]
parse_number(s, p) ==
    LET start_pos == p.i
        i1 == IF At(s, p.i) = CH_MINUS THEN p.i + 1 ELSE p.i
    IN
    IF At(s, i1) = CH_0 /\ IsDigit(At(s, i1 + 1))
    THEN [p |-> fail([p EXCEPT !.i = i1 + 1], Msg("leading 0s not permitted in numbers", <<>>)),
          val |-> Null]
    ELSE IF At(s, i1) # CH_0 /\ ~in_range(At(s, i1), CH_1, CH_9)
    THEN [p |-> fail([p EXCEPT !.i = i1], Msg("invalid in number", esc(At(s, i1)))),
          val |-> Null]
    ELSE
    LET i2 == IF At(s, i1) = CH_0 THEN i1 + 1 ELSE SkipDigits(s, i1 + 1)
    IN
    IF At(s, i2) # CH_DOT /\ At(s, i2) # CH_e /\ At(s, i2) # CH_UPPER_E
       /\ (i2 - start_pos) <= digits10
    THEN [p |-> [p EXCEPT !.i = i2], val |-> Integer(atol(s, start_pos))]
    ELSE
    LET hasFrac == At(s, i2) = CH_DOT
        i3 == IF hasFrac THEN SkipDigits(s, i2 + 1) ELSE i2
    IN
    IF hasFrac /\ ~IsDigit(At(s, i2 + 1))
    THEN [p |-> fail([p EXCEPT !.i = i2 + 1],
                     Msg("at least one digit required in fractional part", <<>>)),
          val |-> Null]
    ELSE
    LET hasE == At(s, i3) = CH_e \/ At(s, i3) = CH_UPPER_E
        i4 == IF hasE /\ (At(s, i3 + 1) = CH_PLUS \/ At(s, i3 + 1) = CH_MINUS)
              THEN i3 + 2 ELSE i3 + 1
    IN
    IF hasE /\ ~IsDigit(At(s, i4))
    THEN [p |-> fail([p EXCEPT !.i = i4], Msg("at least one digit required in exponent", <<>>)),
          val |-> Null]
    ELSE [p |-> [p EXCEPT !.i = IF hasE THEN SkipDigits(s, i4) ELSE i3],
          val |-> Number(strtod(s, start_pos))]

\* an expect that pushes the character back and reports no mismatch
expect_without_failure(s, p, expected, res) ==
    LET k == p.i - 1
    IN  IF substr(s, k, Len(expected)) = expected
        THEN [p |-> [p EXCEPT !.i = k + Len(expected)], val |-> res]
        ELSE [p |-> [p EXCEPT !.i = k], val |-> Null]

\* returns [p, val]
expect(s, p, expected, res) ==
    LET k == p.i - 1
    IN  IF substr(s, k, Len(expected)) = expected
        THEN [p |-> [p EXCEPT !.i = k + Len(expected)], val |-> res]
        ELSE [p |-> fail([p EXCEPT !.i = k],
                         Msg("parse error: expected , got ", expected \o substr(s, k, Len(expected)))),
              val |-> Null]

(***************************************************************************)
(* std::map<std::string, Value> as its pairs in key order                  *)
(***************************************************************************)
\* std::string operator<: bytes compared as unsigned char, a prefix first
RECURSIVE StrLess(_, _)
StrLess(x, y) ==
    IF y = <<>> THEN FALSE
    ELSE IF x = <<>> THEN TRUE
    ELSE IF Head(x) # Head(y) THEN Head(x) < Head(y)
    ELSE StrLess(Tail(x), Tail(y))

\* data[key] = v: the entry is created in key order, or overwritten
RECURSIVE MapPut(_, _, _)
MapPut(o, key, v) ==
    IF o = <<>> THEN <<<<key, v>>>>
    ELSE IF Head(o)[1] = key THEN <<<<key, v>>>> \o Tail(o)
    ELSE IF StrLess(key, Head(o)[1]) THEN <<<<key, v>>>> \o o
    ELSE <<Head(o)>> \o MapPut(Tail(o), key, v)

MapHas(o, key) == \E k \in 1..Len(o) : o[k][1] = key
MapGet(o, key) == o[CHOOSE k \in 1..Len(o) : o[k][1] = key][2]

(***************************************************************************)
(* parse_json(depth), from its entry up to its return or its first nested  *)
(* call.  The outcome is [kind, p, val, key]: "return" with the Value      *)
(* returned, "array" / "object" when a container was opened and            *)
(* parse_json(depth + 1) is called for its first element / for the member  *)
(* named key.                                                              *)
(***************************************************************************)
Return(p, val) == [kind |-> "return", p |-> p, val |-> val, key |-> <<>>]

\* the object loop from its head to the nested call: ch is the token read
object_member(s, p, ch) ==
    IF ch # CH_QUOTE
    THEN Return(fail(p, Msg("expected '\"' in object, got ", esc(ch))), Null)
    ELSE
    LET ks == parse_string(s, p)
    IN  IF ks.p.failed THEN Return(ks.p, Null)
        ELSE
        LET t == get_next_token(s, ks.p)
        IN  IF t.ch # CH_COLON
            THEN Return(fail(t.p, Msg("expected ':' in object, got ", esc(t.ch))), Null)
            ELSE [kind |-> "object", p |-> t.p, val |-> Null, key |-> ks.out]

depth_exceeded(d) == d > max_depth

parse_json_enter(s, p, d) ==
    IF depth_exceeded(d)
    THEN Return(fail(p, Msg("exceeded maximum nesting depth", <<>>)), Null)
    ELSE
    LET t == get_next_token(s, p)
        ch == t.ch
    IN
    IF t.p.failed THEN Return(t.p, Null)
    ELSE IF ch = CH_MINUS \/ (ch >= CH_0 /\ ch <= CH_9)
    THEN LET n == parse_number(s, [t.p EXCEPT !.i = @ - 1]) IN Return(n.p, n.val)
    ELSE IF ch = CH_t
    THEN LET x == expect(s, t.p, TRUE_LIT, Bool(TRUE)) IN Return(x.p, x.val)
    ELSE IF ch = CH_f
    THEN LET x == expect(s, t.p, FALSE_LIT, Bool(FALSE)) IN Return(x.p, x.val)
    ELSE IF ch = CH_n
    THEN LET x == expect(s, t.p, NULL_LIT, Null) IN Return(x.p, x.val)
    ELSE IF ch = CH_QUOTE
    THEN LET x == parse_string(s, t.p) IN Return(x.p, String(x.out))
    ELSE IF ch = CH_LBRACE
    THEN LET t2 == get_next_token(s, t.p)
         IN  IF t2.ch = CH_RBRACE THEN Return(t2.p, ObjectOf(<<>>))
             ELSE object_member(s, t2.p, t2.ch)
    ELSE IF ch = CH_LBRACKET
    THEN LET t2 == get_next_token(s, t.p)
         IN  IF t2.ch = CH_RBRACKET THEN Return(t2.p, ArrayOf(<<>>))
             ELSE [kind |-> "array", p |-> [t2.p EXCEPT !.i = @ - 1], val |-> Null, key |-> <<>>]
    ELSE Return(fail(t.p, Msg("expected value, got ", esc(ch))), Null)

\* the array loop after data.emplace_back(...): outcome as above, "array"
\* meaning the loop goes round and calls parse_json(depth + 1) again
array_next(s, p, data) ==
    IF p.failed THEN Return(p, Null)
    ELSE
    LET t == get_next_token(s, p)
    IN  IF t.ch = CH_RBRACKET THEN Return(t.p, ArrayOf(data))
        ELSE IF t.ch # CH_COMMA
        THEN Return(fail(t.p, Msg("expected ',' in list, got ", esc(t.ch))), Null)
        ELSE LET t2 == get_next_token(s, t.p)
             IN  [kind |-> "array", p |-> [t2.p EXCEPT !.i = @ - 1], val |-> Null, key |-> <<>>]

\* the object loop after data[key] = parse_json(depth + 1)
object_next(s, p, data) ==
    IF p.failed THEN Return(p, Null)
    ELSE
    LET t == get_next_token(s, p)
    IN  IF t.ch = CH_RBRACE THEN Return(t.p, ObjectOf(data))
        ELSE IF t.ch # CH_COMMA
        THEN Return(fail(t.p, Msg("expected ',' in object, got ", esc(t.ch))), Null)
        ELSE LET t2 == get_next_token(s, t.p)
             IN  object_member(s, t2.p, t2.ch)

(***************************************************************************)
(* Serializer: Value::to_string and Value::escape                          *)
(***************************************************************************)
RECURSIVE DigitsOf(_)
DigitsOf(n) == IF n < 10 THEN <<CH_0 + n>> ELSE Append(DigitsOf(n \div 10), CH_0 + (n % 10))

\* the characters of a natural number of any size
BigText(a0) ==
    Only({IF a = <<>> THEN <<CH_0>> ELSE [j \in 1..Len(a) |-> CH_0 + a[j]] : a \in {a0}})

\* std::to_string(long): "%ld"
to_string_long(l) == IF l < 0 THEN <<CH_MINUS>> \o DigitsOf(-l) ELSE DigitsOf(l)

\* std::to_string(long) of a long beyond the integers of TLC
to_string_wide(w) == (IF w.neg THEN <<CH_MINUS>> ELSE <<>>) \o BigText(w.mag)

\* k zeros
Zeros(k) == [j \in 1..k |-> 0]

\* a / 10^n rounded to an integer, a tie going to the even one (n >= 1);
\* cut is the number of digits kept
RoundDigits(a0, n) ==
    Only({Only({IF \/ a[cut + 1] > 5
                   \/ /\ a[cut + 1] = 5
                      /\ \/ \E j \in (cut + 2)..Len(a) : a[j] # 0
                         \/ a[cut] % 2 = 1
                THEN BigMulAdd(SubSeq(a, 1, cut), 1, 1)
                ELSE BigTrim(SubSeq(a, 1, cut))
                : cut \in {Len(a) - n}})
          : a \in {Zeros(Max(0, n + 1 - Len(a0))) \o a0}})

\* |d| in units of 10^-6 for a finite d, as "%f" rounds it: the exact value
\* m * 2^e, which is m * 5^k / 10^k for e = -k, rounded to nearest, a tie
\* going to the even digit.  (Below 2^-24 the result is 0 whatever m is.)
Micros(d) ==
    IF IsZero(d) THEN <<>>
    ELSE IF d.e >= 0 THEN BigShiftLeft(d.m, d.e) \o Zeros(6)
    ELSE IF BitLen(d.m) + d.e < -24 THEN <<>>
    ELSE IF -d.e <= 6 THEN BigMulPow5(d.m, -d.e) \o Zeros(6 + d.e)
    ELSE RoundDigits(BigMulPow5(d.m, -d.e), -d.e - 6)

\* std::to_string(double): "%f", six digits after the point; "inf" for an
\* infinity; the sign is printed also when what follows is zero
to_string_double(d0) ==
    Only({(IF d.neg THEN <<CH_MINUS>> ELSE <<>>)
          \o (IF d.inf THEN <<CH_i, CH_n, CH_f>>
              ELSE Only({BigText(BigTrim(SubSeq(micros, 1, Len(micros) - 6)))
                         \o <<CH_DOT>>
                         \o [j \in 1..6 |-> CH_0 + micros[Len(micros) - 6 + j]]
                         : micros \in {Zeros(7) \o Micros(d)}}))
          : d \in {d0}})

HexChar(n) == IF n < 10 THEN CH_0 + n ELSE CH_a + (n - 10)

RECURSIVE escape_loop(_, _, _)
escape_loop(value, k, out) ==
    IF k >= Len(value) THEN Append(out, CH_QUOTE)
    ELSE
    LET ch == At(value, k)
    IN  IF ch = CH_BACKSLASH THEN escape_loop(value, k + 1, out \o <<CH_BACKSLASH, CH_BACKSLASH>>)
        ELSE IF ch = CH_QUOTE THEN escape_loop(value, k + 1, out \o <<CH_BACKSLASH, CH_QUOTE>>)
        ELSE IF ch = CH_BS THEN escape_loop(value, k + 1, out \o <<CH_BACKSLASH, CH_b>>)
        ELSE IF ch = CH_FF THEN escape_loop(value, k + 1, out \o <<CH_BACKSLASH, CH_f>>)
        ELSE IF ch = CH_LF THEN escape_loop(value, k + 1, out \o <<CH_BACKSLASH, CH_n>>)
        ELSE IF ch = CH_CR THEN escape_loop(value, k + 1, out \o <<CH_BACKSLASH, CH_r>>)
        ELSE IF ch = CH_TAB THEN escape_loop(value, k + 1, out \o <<CH_BACKSLASH, CH_t>>)
        ELSE IF ch <= 31
        THEN escape_loop(value, k + 1,
                 out \o <<CH_BACKSLASH, CH_u, CH_0, CH_0, HexChar(ch \div 16), HexChar(ch % 16)>>)
        ELSE IF ch = 226 /\ At(value, k + 1) = 128 /\ At(value, k + 2) = 168
        THEN escape_loop(value, k + 3, out \o <<CH_BACKSLASH, CH_u, 50, CH_0, 50, 56>>)
        ELSE IF ch = 226 /\ At(value, k + 1) = 128 /\ At(value, k + 2) = 169
        THEN escape_loop(value, k + 3, out \o <<CH_BACKSLASH, CH_u, 50, CH_0, 50, 57>>)
        ELSE escape_loop(value, k + 1, Append(out, ch))

escape(value) == escape_loop(value, 0, <<CH_QUOTE>>)

RECURSIVE to_string(_)
RECURSIVE to_string_array(_, _)
RECURSIVE to_string_object(_, _)

\* the elements from position k on, each but the first after ", "
to_string_array(values, k) ==
    IF k > Len(values) THEN <<>>
    ELSE (IF k > 1 THEN <<CH_COMMA, CH_SPACE>> ELSE <<>>)
         \o to_string(values[k]) \o to_string_array(values, k + 1)

to_string_object(values, k) ==
    IF k > Len(values) THEN <<>>
    ELSE (IF k > 1 THEN <<CH_COMMA, CH_SPACE>> ELSE <<>>)
         \o escape(values[k][1]) \o <<CH_COLON, CH_SPACE>>
         \o to_string(values[k][2]) \o to_string_object(values, k + 1)

to_string(v) ==
    CASE v.type = "NUL" -> NULL_LIT
      [] v.type = "NUMBER" -> to_string_double(v.d)
      [] v.type = "INTEGER" -> IF IsBig(v) THEN to_string_wide(v.wide) ELSE to_string_long(v.l)
      [] v.type = "BOOL" -> IF v.b THEN TRUE_LIT ELSE FALSE_LIT
      [] v.type = "STRING" -> escape(v.s)
      [] v.type = "ARRAY" -> <<CH_LBRACKET>> \o to_string_array(v.a, 1) \o <<CH_RBRACKET>>
      [] v.type = "OBJECT" -> <<CH_LBRACE>> \o to_string_object(v.o, 1) \o <<CH_RBRACE>>

(***************************************************************************)
(* Accessors and comparison                                                *)
(***************************************************************************)
\* number_value(): the double held, or the long converted to double
number_value(v) ==
    IF v.type = "INTEGER" THEN long_to_double(v)
    ELSE IF v.type = "NUMBER" THEN v.d
    ELSE Zero(FALSE)

\* what (long) of a double can give when the value, its fraction discarded,
\* is no long: the conversion is undefined; cvttsd2si of x86-64 gives
\* LONG_MIN whatever the sign, a saturating conversion (AArch64, a compiler
\* that folds the constant) gives LONG_MIN or LONG_MAX
UndefinedLongs == {LONG_MIN, LONG_MAX}

\* the double is in the range of long after its fraction is discarded
in_long_range(d) ==
    /\ ~d.inf
    /\ \/ IsZero(d)
       \/ BitLen(d.m) + d.e <= 63
       \/ d.neg /\ d.m = <<1>> /\ d.e = 63

\* (long) of a double: the fraction is discarded; u is what the conversion
\* gives when it is undefined
double_to_long(d, u) ==
    IF ~in_long_range(d) THEN u
    ELSE IF IsZero(d) THEN Integer(0)
    ELSE IF d.e >= 0 THEN Long(d.neg, BigShiftLeft(d.m, d.e))
    ELSE Long(d.neg, BigShiftRight(d.m, -d.e, FALSE).n)

\* int_value(): the long held, or the double converted to long (as an Integer)
int_value(v, u) ==
    IF v.type = "INTEGER" THEN v
    ELSE IF v.type = "NUMBER" THEN double_to_long(v.d, u)
    ELSE Integer(0)

bool_value(v) == IF v.type = "BOOL" THEN v.b ELSE FALSE

\* string_value(): the std::string held, or the static empty_string
string_value(v) == IF v.type = "STRING" THEN v.s ELSE <<>>

\* array_value(): the Array held, or the static empty_array
array_value(v) == IF v.type = "ARRAY" THEN v.a ELSE <<>>

\* object_value(): the Object held, or the static empty_object
object_value(v) == IF v.type = "OBJECT" THEN v.o ELSE <<>>

size(v) == IF v.type = "ARRAY" THEN Len(v.a) ELSE 0

\* const operator[](size_t): the element, or the Null sentinel
index_pos(v, k) == IF v.type = "ARRAY" /\ k < Len(v.a) THEN v.a[k + 1] ELSE Null

\* const operator[](const std::string &): the field, or the Null sentinel
index_key(v, key) ==
    IF v.type # "OBJECT" THEN Null
    ELSE IF MapHas(v.o, key) THEN MapGet(v.o, key)
    ELSE Null

RECURSIVE op_eq(_, _)
RECURSIVE op_lt(_, _)
RECURSIVE array_lt(_, _, _)
RECURSIVE object_lt(_, _, _)

\* both operands are numbers: the comparison is on number_value()
both_numbers(x, y) == is_number(x) /\ is_number(y)

\* std::vector operator==
array_eq(x, y) == Len(x) = Len(y) /\ \A k \in 1..Len(x) : op_eq(x[k], y[k])

\* std::map operator==: the pairs compared in key order
object_eq(x, y) ==
    Len(x) = Len(y) /\ \A k \in 1..Len(x) : x[k][1] = y[k][1] /\ op_eq(x[k][2], y[k][2])

op_eq(x, y) ==
    IF both_numbers(x, y) THEN double_eq(number_value(x), number_value(y))
    ELSE IF x.type # y.type THEN FALSE
    ELSE CASE x.type = "NUL" -> TRUE
           [] x.type = "BOOL" -> x.b = y.b
           [] x.type = "STRING" -> x.s = y.s
           [] x.type = "ARRAY" -> array_eq(x.a, y.a)
           [] x.type = "OBJECT" -> object_eq(x.o, y.o)
           [] OTHER -> FALSE

\* std::lexicographical_compare over the elements from position k on
array_lt(x, y, k) ==
    IF k > Len(y) THEN FALSE
    ELSE IF k > Len(x) THEN TRUE
    ELSE IF op_lt(x[k], y[k]) THEN TRUE
    ELSE IF op_lt(y[k], x[k]) THEN FALSE
    ELSE array_lt(x, y, k + 1)

\* std::pair operator< on <<key, value>>
pair_lt(x, y) == StrLess(x[1], y[1]) \/ (~StrLess(y[1], x[1]) /\ op_lt(x[2], y[2]))

object_lt(x, y, k) ==
    IF k > Len(y) THEN FALSE
    ELSE IF k > Len(x) THEN TRUE
    ELSE IF pair_lt(x[k], y[k]) THEN TRUE
    ELSE IF pair_lt(y[k], x[k]) THEN FALSE
    ELSE object_lt(x, y, k + 1)

op_lt(x, y) ==
    IF both_numbers(x, y) THEN double_less(number_value(x), number_value(y))
    ELSE IF x.type # y.type THEN TypeRank(x.type) < TypeRank(y.type)
    ELSE CASE x.type = "NUL" -> FALSE
           [] x.type = "BOOL" -> ~x.b /\ y.b
           [] x.type = "STRING" -> StrLess(x.s, y.s)
           [] x.type = "ARRAY" -> array_lt(x.a, y.a, 1)
           [] x.type = "OBJECT" -> object_lt(x.o, y.o, 1)
           [] OTHER -> FALSE

op_ne(x, y) == ~op_eq(x, y)

(***************************************************************************)
(* has_shape(types, err): types is the initializer list of <<name, Type>>; *)
(* returns [ok, err] with err the message assigned (NoMsg when none is).   *)
(***************************************************************************)
\* the field's tag as has_shape reads it
shape_field_type(v, name) == index_key(v, name).type

RECURSIVE has_shape_loop(_, _, _)
has_shape_loop(v, types, k) ==
    IF k > Len(types) THEN [ok |-> TRUE, err |-> NoMsg]
    ELSE IF shape_field_type(v, types[k][1]) # types[k][2]
    THEN [ok |-> FALSE, err |-> Msg("bad type for  in ", types[k][1] \o to_string(v))]
    ELSE has_shape_loop(v, types, k + 1)

has_shape(v, types) ==
    IF ~is_object(v)
    THEN [ok |-> FALSE, err |-> Msg("expected JSON object, got ", to_string(v))]
    ELSE has_shape_loop(v, types, 1)

(***************************************************************************)
(* The parser as a step machine.  One frame per container under            *)
(* construction: the local `data`, the key of the member being parsed and  *)
(* the depth argument of the activation.                                   *)
(***************************************************************************)
P == [i |-> i, err |-> err, failed |-> failed]
Top == stack[Len(stack)]
Pop == SubSeq(stack, 1, Len(stack) - 1)
SetTop(f) == [stack EXCEPT ![Len(stack)] = f]

\* what an outcome of parse_json_enter / array_next / object_next does to
\* the activation that computed it
Outcome(r) ==
    /\ i' = r.p.i
    /\ err' = r.p.err
    /\ failed' = r.p.failed

ParseJson ==
    /\ pc = "json"
    /\ LET r == parse_json_enter(str, P, depth)
       IN  /\ Outcome(r)
           /\ IF r.kind = "return"
              THEN /\ ret' = r.val
                   /\ pc' = "return"
                   /\ UNCHANGED <<stack, depth>>
              ELSE /\ stack' = Append(stack, [kind |-> r.kind, data |-> <<>>,
                                             key |-> r.key, depth |-> depth])
                   /\ depth' = depth + 1
                   /\ pc' = "json"
                   /\ UNCHANGED ret
    /\ UNCHANGED <<str, mode, vals, result, doc>>
    /\ UNCHANGED <<valueVars, heapVars>>

\* data.emplace_back(parse_json(depth + 1))
ArrayEmplace ==
    /\ pc = "return"
    /\ stack # <<>>
    /\ Top.kind = "array"
    /\ stack' = SetTop([Top EXCEPT !.data = Append(@, ret)])
    /\ depth' = Top.depth
    /\ pc' = "array_next"
    /\ UNCHANGED <<str, i, err, failed, ret, mode, vals, result, doc>>
    /\ UNCHANGED <<valueVars, heapVars>>

ArrayNext ==
    /\ pc = "array_next"
    /\ LET r == array_next(str, P, Top.data)
       IN  /\ Outcome(r)
           /\ IF r.kind = "return"
              THEN /\ ret' = r.val
                   /\ stack' = Pop
                   /\ pc' = "return"
                   /\ UNCHANGED depth
              ELSE /\ depth' = depth + 1
                   /\ pc' = "json"
                   /\ UNCHANGED <<stack, ret>>
    /\ UNCHANGED <<str, mode, vals, result, doc>>
    /\ UNCHANGED <<valueVars, heapVars>>

\* data[std::move(key)] = parse_json(depth + 1)
ObjectInsert ==
    /\ pc = "return"
    /\ stack # <<>>
    /\ Top.kind = "object"
    /\ stack' = SetTop([Top EXCEPT !.data = MapPut(@, Top.key, ret)])
    /\ depth' = Top.depth
    /\ pc' = "object_next"
    /\ UNCHANGED <<str, i, err, failed, ret, mode, vals, result, doc>>
    /\ UNCHANGED <<valueVars, heapVars>>

ObjectNext ==
    /\ pc = "object_next"
    /\ LET r == object_next(str, P, Top.data)
       IN  /\ Outcome(r)
           /\ IF r.kind = "return"
              THEN /\ ret' = r.val
                   /\ stack' = Pop
                   /\ pc' = "return"
                   /\ UNCHANGED depth
              ELSE /\ stack' = SetTop([Top EXCEPT !.key = r.key])
                   /\ depth' = depth + 1
                   /\ pc' = "json"
                   /\ UNCHANGED ret
    /\ UNCHANGED <<str, mode, vals, result, doc>>
    /\ UNCHANGED <<valueVars, heapVars>>

\* parse(): the trailing-garbage check and the return
ParseFinish ==
    /\ pc = "return"
    /\ stack = <<>>
    /\ mode = "parse"
    /\ LET k == consume_whitespace(str, i)
           q == IF k # Len(str)
                THEN fail([P EXCEPT !.i = k], Msg("unexpected trailing ", esc(At(str, k))))
                ELSE [P EXCEPT !.i = k]
       IN  /\ i' = k
           /\ err' = q.err
           /\ failed' = q.failed
           /\ result' = IF k # Len(str) THEN Null ELSE ret
    /\ pc' = "done"
    /\ UNCHANGED <<str, stack, depth, ret, mode, vals, doc>>
    /\ UNCHANGED <<valueVars, heapVars>>

\* parse_multi(): the loop condition
multi_continue_after_failure(k, n, f) == k # n

multi_continue(k, n, f) == k # n /\ ~f

MultiLoop ==
    /\ pc = "loop"
    /\ IF multi_continue(i, Len(str), failed)
       THEN pc' = "json" /\ depth' = 0
       ELSE pc' = "done" /\ UNCHANGED depth
    /\ UNCHANGED <<str, i, err, failed, stack, ret, mode, vals, result, doc>>
    /\ UNCHANGED <<valueVars, heapVars>>

\* parse_multi(): vals.push_back(parser.parse_json(0)); consume_whitespace()
MultiPush ==
    /\ pc = "return"
    /\ stack = <<>>
    /\ mode = "multi"
    /\ vals' = Append(vals, ret)
    /\ i' = consume_whitespace(str, i)
    /\ pc' = "loop"
    /\ UNCHANGED <<str, err, failed, stack, depth, ret, mode, result, doc>>
    /\ UNCHANGED <<valueVars, heapVars>>

NextParser ==
    \/ ParseJson
    \/ ArrayEmplace
    \/ ArrayNext
    \/ ObjectInsert
    \/ ObjectNext
    \/ ParseFinish
    \/ MultiLoop
    \/ MultiPush

(***************************************************************************)
(* Inputs                                                                  *)
(***************************************************************************)
MaxTokens == 4

\* [ ] { } , : TAB 1 - "k" " \
Tokens ==
    {<<CH_LBRACKET>>, <<CH_RBRACKET>>, <<CH_LBRACE>>, <<CH_RBRACE>>, <<CH_COMMA>>,
     <<CH_COLON>>, <<CH_TAB>>, <<CH_1>>, <<CH_MINUS>>, <<CH_QUOTE, 107, CH_QUOTE>>,
     <<CH_QUOTE>>, <<CH_BACKSLASH>>}

RECURSIVE TokenStrings(_)
TokenStrings(n) ==
    IF n = 0 THEN {<<>>}
    ELSE LET prev == TokenStrings(n - 1)
         IN  prev \cup {x \o t : x \in prev, t \in Tokens}

\* texts that reach every production and every failure of the parser:
\*   
\*    
\*   true
\*   false
\*   null
\*   tru
\*   nul
\*   x
\*   0
\*   -1
\*   01
\*   -
\*   1.5
\*   1.
\*   1e2
\*   1e
\*   1E+2
\*   -0.25e-1
\*   123456789
\*   1234567890
\*   -123456789
\*   "a"
\*   "a
\*   "\\n"
\*   "\\q"
\*   "\\
\*   "\\u0041"
\*   "\\u00e9"
\*   "\\u1234"
\*   "\\ud83d\\udca9"
\*   "\\ud83dx"
\*   "\\udca9"
\*   "\\u12"
\*   "\\u12g4"
\*   "\x01"
\*   "\\b\\f\\r\\t\\"\\\\\\/"
\*   []
\*   [1]
\*   [1, 2]
\*   [1 2]
\*   [1,
\*   [
\*   [ 
\*   [[1], []]
\*   [1,]
\*   [,1]
\*   {}
\*   {"a": 1}
\*   {"a":1,"a":2}
\*   {"b":1,"a":[true]}
\*   {"a"}
\*   {"a":
\*   {"a":1
\*   {"a":1 "b"}
\*   {a}
\*   {
\*   {"a":1,}
\*   {"a
\*   1 2
\*   1 2 3
\*   [1]x
\*   "a" 
\*   {"k":{"k":[]}}
Corpus == {
    <<>>,
    <<32>>,
    <<116, 114, 117, 101>>,
    <<102, 97, 108, 115, 101>>,
    <<110, 117, 108, 108>>,
    <<116, 114, 117>>,
    <<110, 117, 108>>,
    <<120>>,
    <<48>>,
    <<45, 49>>,
    <<48, 49>>,
    <<45>>,
    <<49, 46, 53>>,
    <<49, 46>>,
    <<49, 101, 50>>,
    <<49, 101>>,
    <<49, 69, 43, 50>>,
    <<45, 48, 46, 50, 53, 101, 45, 49>>,
    <<49, 50, 51, 52, 53, 54, 55, 56, 57>>,
    <<49, 50, 51, 52, 53, 54, 55, 56, 57, 48>>,
    <<45, 49, 50, 51, 52, 53, 54, 55, 56, 57>>,
    <<34, 97, 34>>,
    <<34, 97>>,
    <<34, 92, 110, 34>>,
    <<34, 92, 113, 34>>,
    <<34, 92>>,
    <<34, 92, 117, 48, 48, 52, 49, 34>>,
    <<34, 92, 117, 48, 48, 101, 57, 34>>,
    <<34, 92, 117, 49, 50, 51, 52, 34>>,
    <<34, 92, 117, 100, 56, 51, 100, 92, 117, 100, 99, 97, 57, 34>>,
    <<34, 92, 117, 100, 56, 51, 100, 120, 34>>,
    <<34, 92, 117, 100, 99, 97, 57, 34>>,
    <<34, 92, 117, 49, 50, 34>>,
    <<34, 92, 117, 49, 50, 103, 52, 34>>,
    <<34, 1, 34>>,
    <<34, 92, 98, 92, 102, 92, 114, 92, 116, 92, 34, 92, 92, 92, 47, 34>>,
    <<91, 93>>,
    <<91, 49, 93>>,
    <<91, 49, 44, 32, 50, 93>>,
    <<91, 49, 32, 50, 93>>,
    <<91, 49, 44>>,
    <<91>>,
    <<91, 32>>,
    <<91, 91, 49, 93, 44, 32, 91, 93, 93>>,
    <<91, 49, 44, 93>>,
    <<91, 44, 49, 93>>,
    <<123, 125>>,
    <<123, 34, 97, 34, 58, 32, 49, 125>>,
    <<123, 34, 97, 34, 58, 49, 44, 34, 97, 34, 58, 50, 125>>,
    <<123, 34, 98, 34, 58, 49, 44, 34, 97, 34, 58, 91, 116, 114, 117, 101, 93, 125>>,
    <<123, 34, 97, 34, 125>>,
    <<123, 34, 97, 34, 58>>,
    <<123, 34, 97, 34, 58, 49>>,
    <<123, 34, 97, 34, 58, 49, 32, 34, 98, 34, 125>>,
    <<123, 97, 125>>,
    <<123>>,
    <<123, 34, 97, 34, 58, 49, 44, 125>>,
    <<123, 34, 97>>,
    <<49, 32, 50>>,
    <<49, 32, 50, 32, 51>>,
    <<91, 49, 93, 120>>,
    <<34, 97, 34, 32>>,
    <<123, 34, 107, 34, 58, 123, 34, 107, 34, 58, 91, 93, 125, 125>>
}

\* an input text with what it was built from
Case(s, d) == [str |-> s, doc |-> d]
Plain(texts) == {Case(s, Null) : s \in texts}

\* the state after JsonParser parser { in, 0, err, false } in parse / parse_multi
InitParser(cases, modes, errs) ==
    /\ \E c \in cases : str = c.str /\ doc = c.doc
    /\ mode \in modes
    /\ i = 0
    /\ err \in errs
    /\ failed = FALSE
    /\ stack = <<>>
    /\ depth = 0
    /\ pc = IF mode = "parse" THEN "json" ELSE "loop"
    /\ ret = Null
    /\ vals = <<>>
    /\ result = Null

\* the variables of the parts a specification does not run
IdleParser ==
    /\ str = <<>> /\ i = 0 /\ err = NoMsg /\ failed = FALSE
    /\ stack = <<>> /\ depth = 0 /\ pc = "idle" /\ ret = Null
    /\ mode = "idle" /\ vals = <<>> /\ result = Null /\ doc = Null

IdleValue ==
    /\ lhs = Null /\ rhs = Null /\ third = Null /\ shape = <<>>
    /\ cmp = [done |-> FALSE] /\ hs = [done |-> FALSE] /\ acc = [done |-> FALSE]

IdleHeap ==
    /\ slots = <<>> /\ heap = <<>> /\ last = [op |-> "none", n |-> 0]

Init ==
    /\ InitParser(Plain(TokenStrings(MaxTokens) \cup Corpus), {"parse", "multi"}, {NoMsg})
    /\ IdleValue
    /\ IdleHeap

Spec == Init /\ [][NextParser]_vars

\* parse and parse_multi run on one thread and nothing suspends them: a step
\* that can be taken is taken
MaxLiveTokens == 1
MaxLiveLen == 6

\* objects whose loop goes round: {"a": 1}, {"a":1,"a":2} and one nested in
\* an array, [{"a":1,"a":2}]
LiveObjects ==
    {<<123, 34, 97, 34, 58, 32, 49, 125>>,
     <<123, 34, 97, 34, 58, 49, 44, 34, 97, 34, 58, 50, 125>>,
     <<91, 123, 34, 97, 34, 58, 49, 44, 34, 97, 34, 58, 50, 125, 93>>}

\* the short texts of the corpus, every text of up to MaxLiveTokens tokens,
\* and the objects
LiveTexts ==
    TokenStrings(MaxLiveTokens) \cup {c \in Corpus : Len(c) <= MaxLiveLen} \cup LiveObjects

InitLive ==
    /\ InitParser(Plain(LiveTexts), {"parse", "multi"}, {NoMsg})
    /\ IdleValue
    /\ IdleHeap

SpecLive == InitLive /\ [][NextParser]_vars /\ WF_vars(NextParser)

(***************************************************************************)
(* Deeply nested documents: n containers of one kind around each other,    *)
(* the innermost empty or holding the scalar 1.                            *)
(***************************************************************************)
\* the text pat repeated n times
Repeat(pat, n) == [k \in 1..(n * Len(pat)) |-> pat[((k - 1) % Len(pat)) + 1]]

Nested(n, kind, inner) ==
    IF kind = "array"
    THEN Repeat(<<CH_LBRACKET>>, n) \o inner \o Repeat(<<CH_RBRACKET>>, n)
    ELSE Repeat(<<CH_LBRACE, CH_QUOTE, 107, CH_QUOTE, CH_COLON>>, n - 1) \o <<CH_LBRACE>>
         \o (IF inner = <<>> THEN <<>> ELSE <<CH_QUOTE, 107, CH_QUOTE, CH_COLON>> \o inner)
         \o Repeat(<<CH_RBRACE>>, n)

NestDepths == {max_depth - 1, max_depth, max_depth + 1, max_depth + 2}

NestCases ==
    {Case(Nested(n, kind, inner) \o tail,
          [type |-> "NEST", n |-> n, kind |-> kind, inner |-> inner]) :
        n \in NestDepths, kind \in {"array", "object"},
        inner \in {<<>>, <<CH_1>>}, tail \in {<<>>, <<CH_SPACE>>}}

InitDepth ==
    /\ InitParser(NestCases \cup Plain(Corpus), {"parse", "multi"}, {NoMsg})
    /\ IdleValue
    /\ IdleHeap

SpecDepth == InitDepth /\ [][NextParser]_vars

(***************************************************************************)
(* Values built by a client, and the texts to_string gives for them        *)
(***************************************************************************)
MaxStrLen == 3

\* \ " BS LF 0x01 NUL, the bytes of U+2028 / U+2029, a u / DEL 0xff
StringBytes == {CH_BACKSLASH, CH_QUOTE, CH_BS, CH_LF, 1, 0, 226, 128, 168, 169,
                CH_a, CH_u, CH_SLASH, 127, 255}

RECURSIVE ByteStrings(_)
ByteStrings(n) ==
    IF n = 0 THEN {<<>>}
    ELSE LET prev == ByteStrings(n - 1)
         IN  prev \cup {Append(x, c) : x \in prev, c \in StringBytes}

\* 0, -5, 42, nine digits, ten digits, nine digits with a sign
SomeIntegers == {Integer(0), Integer(-5), Integer(42), Integer(123456789),
                 Integer(1234567890), Integer(-123456789)}

\* 42.0, 1.5, -0.25, 42.1, 1/128 = 0.0078125, 0.0000001; 0.0000025 and
\* 1.9999995, whose doubles lie off the middle between two six-digit
\* decimals; 1e23, which is no double; -0.0 and infinity
SomeNumbers == {Number(Dec(42, 0)), Number(Dec(15, -1)), Number(Dec(-25, -2)),
                Number(Dec(421, -1)), Number(Dec(78125, -7)), Number(Dec(1, -7)),
                Number(Dec(25, -7)), Number(Dec(19999995, -7)), Number(Dec(1, 23)),
                Number(Zero(TRUE)), Number(Inf(FALSE))}

SomeScalars ==
    {Null, Bool(TRUE), Bool(FALSE), String(<<>>), String(<<CH_a>>)}
    \cup SomeIntegers \cup SomeNumbers

SomeContainers ==
    {ArrayOf(<<>>), ArrayOf(<<Integer(1), Number(Dec(15, -1)), String(<<CH_QUOTE>>)>>),
     ArrayOf(<<ArrayOf(<<>>), ObjectOf(<<>>), Null, Bool(TRUE)>>),
     ObjectOf(<<>>),
     ObjectOf(<<<< <<CH_a>>, Integer(1)>>, << <<CH_b>>, ArrayOf(<<Bool(FALSE)>>)>>>>),
     ObjectOf(<<<< <<CH_LF>>, ObjectOf(<<<< <<>>, String(<<226, 128, 168>>)>>>>)>>>>)}

RoundValues ==
    SomeScalars \cup SomeContainers \cup {String(s) : s \in ByteStrings(MaxStrLen)}

InitRound ==
    /\ InitParser({Case(to_string(v), [type |-> "VALUE", v |-> v]) : v \in RoundValues}
                  \cup Plain(Corpus), {"parse", "multi"}, {NoMsg})
    /\ IdleValue
    /\ IdleHeap

SpecRound == InitRound /\ [][NextParser]_vars

(***************************************************************************)
(* Texts holding several documents, as parse_multi reads them              *)
(***************************************************************************)
MaxDocs == 3

MultiValues ==
    {Integer(1), Integer(2), Integer(3), Integer(-1), Number(Dec(15, -1)), Bool(TRUE),
     Null, String(<<CH_a>>), ArrayOf(<<Integer(1)>>), ObjectOf(<<>>)}

RECURSIVE DocLists(_)
DocLists(n) ==
    IF n = 0 THEN {<<>>}
    ELSE LET prev == DocLists(n - 1)
         IN  prev \cup {Append(x, v) : x \in prev, v \in MultiValues}

\* the texts of vs, with sep between neighbours
RECURSIVE Join(_, _)
Join(vs, sep) ==
    IF vs = <<>> THEN <<>>
    ELSE IF Len(vs) = 1 THEN to_string(vs[1])
    ELSE to_string(vs[1]) \o sep \o Join(Tail(vs), sep)

\* the documents vs; when bad, then a stray ] and one more document
MultiText(vs, sep, bad) ==
    Join(vs, sep) \o (IF bad THEN sep \o <<CH_RBRACKET>> \o to_string(Integer(2)) ELSE <<>>)

MultiCases ==
    {Case(MultiText(vs, sep, bad), [type |-> "MULTI", vs |-> vs, sep |-> sep, bad |-> bad]) :
        vs \in DocLists(MaxDocs), sep \in {<<>>, <<CH_SPACE>>}, bad \in BOOLEAN}

\* what the caller's err may hold before the call
CallerErrs == {NoMsg, Msg("stale", <<>>)}

InitMulti ==
    /\ InitParser(MultiCases \cup Plain(Corpus), {"parse", "multi"}, CallerErrs)
    /\ IdleValue
    /\ IdleHeap

SpecMulti == InitMulti /\ [][NextParser]_vars

(***************************************************************************)
(* Number literals: a sign or none, a run of digits, then nothing, a       *)
(* space, a fraction or an exponent                                        *)
(***************************************************************************)
\* n digits, none of them 0: 1, 12, ..., 123456789, 1234567891
DigitRun(n) == [k \in 1..n |-> CH_1 + ((k - 1) % 9)]

\* the runs are up to one digit longer than an int is sure to hold; a
\* fraction follows short runs only
NumberCases ==
    {Case(sign \o DigitRun(n) \o tail,
          [type |-> "LITERAL", neg |-> sign # <<>>, digits |-> n, tail |-> tail]) :
        sign \in {<<>>, <<CH_MINUS>>}, n \in 1..(digits10 + 1),
        tail \in {<<>>, <<CH_SPACE>>, <<CH_e, CH_1>>, <<CH_UPPER_E, CH_PLUS, CH_1>>}}
    \cup
    {Case(sign \o DigitRun(n) \o <<CH_DOT, CH_1>>,
          [type |-> "LITERAL", neg |-> sign # <<>>, digits |-> n, tail |-> <<CH_DOT, CH_1>>]) :
        sign \in {<<>>, <<CH_MINUS>>}, n \in 1..3}

InitNumber ==
    /\ InitParser(NumberCases \cup Plain(Corpus), {"parse", "multi"}, {NoMsg})
    /\ IdleValue
    /\ IdleHeap

SpecNumber == InitNumber /\ [][NextParser]_vars

(***************************************************************************)
(* Strings made of plain characters, simple escapes and \u escapes         *)
(***************************************************************************)
MaxItems == 3

\* a \u escape written with the four hex digits h, standing for the code unit cp
UEscape(h, cp) == [kind |-> "u", text |-> <<CH_BACKSLASH, CH_u>> \o h, cp |-> cp]

\* a, \n, \u0041, \u0000, \u00e9, \u20AC, \ud7ff, \ue000,
\* the high surrogates \ud83d \uDBFF, the low surrogates \udca9 \udc00
StringItems ==
    {[kind |-> "raw", text |-> <<CH_a>>, cp |-> CH_a],
     [kind |-> "raw", text |-> <<CH_BACKSLASH, CH_n>>, cp |-> CH_LF],
     UEscape(<<48, 48, 52, 49>>, 65),
     UEscape(<<48, 48, 48, 48>>, 0),
     UEscape(<<48, 48, 101, 57>>, 233),
     UEscape(<<50, 48, 65, 67>>, 8364),
     UEscape(<<100, 55, 102, 102>>, 55295),
     UEscape(<<101, 48, 48, 48>>, 57344),
     UEscape(<<100, 56, 51, 100>>, 55357),
     UEscape(<<68, 66, 70, 70>>, 56319),
     UEscape(<<100, 99, 97, 57>>, 56489),
     UEscape(<<100, 99, 48, 48>>, 56320)}

RECURSIVE ItemLists(_)
ItemLists(n) ==
    IF n = 0 THEN {<<>>}
    ELSE LET prev == ItemLists(n - 1)
         IN  prev \cup {Append(x, it) : x \in prev, it \in StringItems}

RECURSIVE ItemsText(_)
ItemsText(items) ==
    IF items = <<>> THEN <<>> ELSE items[1].text \o ItemsText(Tail(items))

StringCases ==
    {Case(<<CH_QUOTE>> \o ItemsText(items) \o <<CH_QUOTE>>,
          [type |-> "ESCAPES", items |-> items]) : items \in ItemLists(MaxItems)}

InitString ==
    /\ InitParser(StringCases \cup Plain(Corpus), {"parse", "multi"}, {NoMsg})
    /\ IdleValue
    /\ IdleHeap

SpecString == InitString /\ [][NextParser]_vars

(***************************************************************************)
(* Comparison and has_shape on Values built by a client                    *)
(***************************************************************************)
\* cmp: the results of the comparison operators on lhs, rhs, third
Compare ==
    /\ ~cmp.done
    /\ cmp' = [done |-> TRUE,
               eq_ab |-> op_eq(lhs, rhs), ne_ab |-> op_ne(lhs, rhs),
               lt_ab |-> op_lt(lhs, rhs), lt_ba |-> op_lt(rhs, lhs),
               eq_bc |-> op_eq(rhs, third), lt_bc |-> op_lt(rhs, third),
               eq_ac |-> op_eq(lhs, third), lt_ac |-> op_lt(lhs, third)]
    /\ UNCHANGED <<lhs, rhs, third, shape, hs, acc>>
    /\ UNCHANGED <<parserVars, heapVars>>

ShapeNames == {<<CH_a>>, <<CH_b>>}
ShapeTypes == {"NUL", "INTEGER", "NUMBER", "STRING"}
ShapeItems == {<<n, ty>> : n \in ShapeNames, ty \in ShapeTypes}

\* the initializer lists passed to has_shape
Shapes ==
    {<<>>} \cup {<<x>> : x \in ShapeItems}
    \cup {<<x, y>> : x \in {<<(<<CH_a>>), "INTEGER">>}, y \in ShapeItems}

\* lhs.has_shape(types, err): hs is the result and the err it assigned.
\* (has_shape reads its receiver only, so the call is made for one choice
\* of the two other operands.)
HasShape ==
    /\ ~hs.done
    /\ rhs = Null /\ third = Null
    /\ \E types \in Shapes :
          /\ shape' = types
          /\ hs' = [done |-> TRUE, ok |-> has_shape(lhs, types).ok,
                    err |-> has_shape(lhs, types).err]
    /\ UNCHANGED <<lhs, rhs, third, cmp, acc>>
    /\ UNCHANGED <<parserVars, heapVars>>

NextValue ==
    \/ Compare
    \/ HasShape

SomeStrings == {String(<<>>), String(<<CH_a>>), String(<<CH_b>>), String(<<CH_a, CH_b>>)}

\* 42, 1, -5, 42.0, 42.1, 1.5 and the longs and doubles around 2^53
\* 42, 1, -5, 42.0, 42.1, 1.5, the longs and doubles around 2^53, the two
\* zeros and the two infinities
CmpNumbers ==
    {Integer(42), Integer(1), Integer(-5),
     Number(Dec(42, 0)), Number(Dec(421, -1)), Number(Dec(15, -1)),
     BigInteger(0), BigInteger(1), BigInteger(2), BigInteger(3), BigInteger(-1),
     Number(Two53(0)), Number(Two53(2)), Number(Two53(-1)),
     Number(Zero(FALSE)), Number(Zero(TRUE)), Number(Inf(FALSE)), Number(Inf(TRUE))}

CmpArrays ==
    {ArrayOf(<<>>), ArrayOf(<<Integer(1)>>), ArrayOf(<<Number(Dec(1, 0))>>),
     ArrayOf(<<Integer(1), Null>>), ArrayOf(<<Bool(TRUE)>>), ArrayOf(<<ArrayOf(<<>>)>>)}

CmpObjects ==
    {ObjectOf(<<>>),
     ObjectOf(<<<< <<CH_a>>, Integer(1)>>>>),
     ObjectOf(<<<< <<CH_a>>, Number(Dec(15, -1))>>>>),
     ObjectOf(<<<< <<CH_a>>, Null>>>>),
     ObjectOf(<<<< <<CH_b>>, Integer(1)>>>>),
     ObjectOf(<<<< <<CH_a>>, Integer(1)>>, << <<CH_b>>, String(<<CH_a>>)>>>>)}

CmpValues ==
    {Null, Bool(FALSE), Bool(TRUE)} \cup CmpNumbers \cup SomeStrings
    \cup CmpArrays \cup CmpObjects

InitValue ==
    /\ lhs \in CmpValues
    /\ rhs \in CmpValues
    /\ third \in CmpValues
    /\ shape = <<>>
    /\ cmp = [done |-> FALSE]
    /\ hs = [done |-> FALSE]
    /\ acc = [done |-> FALSE]
    /\ IdleParser
    /\ IdleHeap

SpecValue == InitValue /\ [][NextValue]_vars

(***************************************************************************)
(* The const accessors on Values built by a client                         *)
(***************************************************************************)
\* the positions and keys a client reads
ReadPositions == 0..2
ReadKeys == {<<CH_a>>, <<CH_b>>}

\* 42.9, -1.5, -0.25, and 1e19, -1e19, 2^63, which are beyond the longs,
\* and -2^63, the first long, next to the numbers compared above
AccessValues ==
    CmpValues \cup {Number(Dec(429, -1)), Number(Dec(-15, -1)), Number(Dec(-25, -2)),
                    Number(Dec(1, 19)), Number(Dec(-1, 19)),
                    Number(RoundToDouble(FALSE, Two63, 0)),
                    Number(RoundToDouble(TRUE, Two63, 0))}

\* every const accessor applied to lhs, once each, then to_string again
Access ==
    \E u \in UndefinedLongs :
        /\ ~acc.done
        /\ acc' = [done |-> TRUE,
                   before |-> to_string(lhs),
                   number_value |-> number_value(lhs), int_value |-> int_value(lhs, u),
                   bool_value |-> bool_value(lhs), string_value |-> string_value(lhs),
                   array_value |-> array_value(lhs), object_value |-> object_value(lhs),
                   size |-> size(lhs),
                   at |-> [k \in ReadPositions |-> index_pos(lhs, k)],
                   key |-> [k \in ReadKeys |-> index_key(lhs, k)],
                   after |-> to_string(lhs)]
        /\ UNCHANGED <<lhs, rhs, third, shape, cmp, hs>>
        /\ UNCHANGED <<parserVars, heapVars>>

InitAccess ==
    /\ lhs \in AccessValues
    /\ rhs \in {Null, Integer(1)}
    /\ third = Null
    /\ shape = <<>>
    /\ cmp = [done |-> FALSE]
    /\ hs = [done |-> FALSE]
    /\ acc = [done |-> FALSE]
    /\ IdleParser
    /\ IdleHeap

SpecAccess == InitAccess /\ [][Access]_vars

(***************************************************************************)
(* Value objects and the payloads they own.  A Value object is its type_   *)
(* and value_; the value_ of a STRING, ARRAY or OBJECT is a pointer, here  *)
(* the index of a cell of heap.  A cell is what one `new` returned: its    *)
(* data (the bytes, the element objects or the <<key, object>> pairs), its *)
(* state and how many times it was deleted.  Cells are never reused.       *)
(* slots are the Value variables of a client; a dead slot is a variable    *)
(* out of scope.  The operands are whole variables: dst and src are the    *)
(* same variable or two unrelated ones, never one an element of the other. *)
(***************************************************************************)
NumSlots == 2
MaxCells == 6
MaxElems == 3
MaxOps == 5

Obj(ty, val) == [type_ |-> ty, value_ |-> val]

\* type_ = NUL; value_ = ValueHolder()
NullObj == Obj("NUL", 0)

HasPayload(o) == o.type_ \in {"STRING", "ARRAY", "OBJECT"}

Cell(kind, data) == [state |-> "live", kind |-> kind, data |-> data, deletes |-> 0]

\* the Value objects stored in a cell
ElemObjs(cell) ==
    IF cell.kind = "array" THEN cell.data
    ELSE IF cell.kind = "object" THEN [k \in 1..Len(cell.data) |-> cell.data[k][2]]
    ELSE <<>>

\* the cell's data with its Value objects replaced by objs
WithElemObjs(cell, objs) ==
    IF cell.kind = "array" THEN objs
    ELSE IF cell.kind = "object" THEN [k \in 1..Len(cell.data) |-> <<cell.data[k][1], objs[k]>>]
    ELSE cell.data

RECURSIVE copy(_, _)
RECURSIVE copy_elems(_, _, _)

\* the copy constructors of std::vector and std::map: one copy per element
copy_elems(objs, h, k) ==
    IF k > Len(objs) THEN [objs |-> <<>>, heap |-> h]
    ELSE LET first == copy(objs[k], h)
             rest == copy_elems(objs, first.heap, k + 1)
         IN  [objs |-> <<first.obj>> \o rest.objs, heap |-> rest.heap]

\* copy(o): returns the object built and the heap after the allocations
copy(o, h) ==
    IF ~HasPayload(o) THEN [obj |-> o, heap |-> h]
    ELSE LET cell == h[o.value_]
             r == copy_elems(ElemObjs(cell), h, 1)
         IN  [obj |-> Obj(o.type_, Len(r.heap) + 1),
              heap |-> Append(r.heap, Cell(cell.kind, WithElemObjs(cell, r.objs)))]

RECURSIVE clear(_, _)
RECURSIVE clear_elems(_, _, _)

\* the destructors of the elements of a deleted std::vector or std::map
clear_elems(objs, h, k) ==
    IF k > Len(objs) THEN h ELSE clear_elems(objs, clear(objs[k], h), k + 1)

\* clear(): the heap after the delete (the object itself becomes NullObj)
clear(o, h) ==
    IF ~HasPayload(o) THEN h
    ELSE LET h1 == clear_elems(ElemObjs(h[o.value_]), h, 1)
         IN  [h1 EXCEPT ![o.value_].state = "freed", ![o.value_].deletes = @ + 1]

RECURSIVE new_value(_, _)
RECURSIVE new_elems(_, _, _)

new_elems(vs, h, k) ==
    IF k > Len(vs) THEN [objs |-> <<>>, heap |-> h]
    ELSE LET first == new_value(vs[k], h)
             rest == new_elems(vs, first.heap, k + 1)
         IN  [objs |-> <<first.obj>> \o rest.objs, heap |-> rest.heap]

\* the constructors Value(), Value(long), Value(bool), Value(const std::string &),
\* Value(const Array &), Value(const Object &) on the content v
new_value(v, h) ==
    CASE v.type = "NUL" -> [obj |-> NullObj, heap |-> h]
      [] v.type = "INTEGER" -> [obj |-> Obj("INTEGER", v.l), heap |-> h]
      [] v.type = "NUMBER" -> [obj |-> Obj("NUMBER", v.d), heap |-> h]
      [] v.type = "BOOL" -> [obj |-> Obj("BOOL", v.b), heap |-> h]
      [] v.type = "STRING" ->
            [obj |-> Obj("STRING", Len(h) + 1), heap |-> Append(h, Cell("string", v.s))]
      [] v.type = "ARRAY" ->
            LET r == new_elems(v.a, h, 1)
            IN  [obj |-> Obj("ARRAY", Len(r.heap) + 1),
                 heap |-> Append(r.heap, Cell("array", r.objs))]
      [] v.type = "OBJECT" ->
            LET r == new_elems([k \in 1..Len(v.o) |-> v.o[k][2]], h, 1)
            IN  [obj |-> Obj("OBJECT", Len(r.heap) + 1),
                 heap |-> Append(r.heap,
                     Cell("object", [k \in 1..Len(v.o) |-> <<v.o[k][1], r.objs[k]>>]))]

RECURSIVE value_of(_, _)
\* the content of a Value object, read through its pointers
value_of(o, h) ==
    CASE o.type_ = "NUL" -> Null
      [] o.type_ = "INTEGER" -> Integer(o.value_)
      [] o.type_ = "NUMBER" -> Number(o.value_)
      [] o.type_ = "BOOL" -> Bool(o.value_)
      [] o.type_ = "STRING" -> String(h[o.value_].data)
      [] o.type_ = "ARRAY" ->
            ArrayOf([k \in 1..Len(h[o.value_].data) |-> value_of(h[o.value_].data[k], h)])
      [] o.type_ = "OBJECT" ->
            ObjectOf([k \in 1..Len(h[o.value_].data) |->
                        <<h[o.value_].data[k][1], value_of(h[o.value_].data[k][2], h)>>])

Slot(o) == [live |-> TRUE, obj |-> o]
DeadSlot == [live |-> FALSE, obj |-> NullObj]
SlotIds == 1..NumSlots

\* what the last operation was, how many there were, on which variables, and
\* what src was before
Last(op, d, s) ==
    [op |-> op, n |-> last.n + 1, dst |-> d, src |-> s,
     src_obj |-> slots[s].obj, src_before |-> value_of(slots[s].obj, heap)]

HeapValues ==
    {Null, Integer(1), String(<<CH_a>>), ArrayOf(<<String(<<CH_b>>)>>),
     ObjectOf(<<<< <<CH_a>>, Integer(1)>>>>)}

\* Value dst(v)
Construct ==
    \E d \in SlotIds, v \in HeapValues :
        LET r == new_value(v, heap)
        IN  /\ last.n < MaxOps
            /\ ~slots[d].live
            /\ Len(r.heap) <= MaxCells
            /\ slots' = [slots EXCEPT ![d] = Slot(r.obj)]
            /\ heap' = r.heap
            /\ last' = [Last("construct", d, d) EXCEPT !.src_before = v]
            /\ UNCHANGED <<parserVars, valueVars>>

\* Value dst(src): Value(const Value & o) { copy(o); }
CopyConstruct ==
    \E d \in SlotIds, s \in SlotIds :
        LET r == copy(slots[s].obj, heap)
        IN  /\ last.n < MaxOps
            /\ ~slots[d].live
            /\ slots[s].live
            /\ Len(r.heap) <= MaxCells
            /\ slots' = [slots EXCEPT ![d] = Slot(r.obj)]
            /\ heap' = r.heap
            /\ last' = Last("copy_construct", d, s)
            /\ UNCHANGED <<parserVars, valueVars>>

\* dst = src: operator=(const Value & o) { clear(); copy(o); }
CopyAssign ==
    \E d \in SlotIds, s \in SlotIds :
        LET h1 == clear(slots[d].obj, heap)
            cleared == [slots EXCEPT ![d] = Slot(NullObj)]
            r == copy(cleared[s].obj, h1)
        IN  /\ last.n < MaxOps
            /\ slots[d].live
            /\ slots[s].live
            /\ Len(r.heap) <= MaxCells
            /\ slots' = [cleared EXCEPT ![d] = Slot(r.obj)]
            /\ heap' = r.heap
            /\ last' = Last("copy_assign", d, s)
            /\ UNCHANGED <<parserVars, valueVars>>

\* Value dst(std::move(src)): Value(Value && o)
MoveConstruct ==
    \E d \in SlotIds, s \in SlotIds :
        /\ last.n < MaxOps
        /\ ~slots[d].live
        /\ slots[s].live
        /\ slots' = [slots EXCEPT ![d] = Slot(slots[s].obj), ![s] = Slot(NullObj)]
        /\ UNCHANGED heap
        /\ last' = Last("move_construct", d, s)
        /\ UNCHANGED <<parserVars, valueVars>>

\* dst = std::move(src): operator=(Value && o): type_ = o.type_; value_ =
\* o.value_; then o.type_ = NUL; o.value_ = ValueHolder()
MoveAssign ==
    \E d \in SlotIds, s \in SlotIds :
        LET taken == [slots EXCEPT ![d] = Slot(slots[s].obj)]
        IN  /\ last.n < MaxOps
            /\ slots[d].live
            /\ slots[s].live
            /\ slots' = [taken EXCEPT ![s] = Slot(NullObj)]
            /\ UNCHANGED heap
            /\ last' = Last("move_assign", d, s)
            /\ UNCHANGED <<parserVars, valueVars>>

\* the variable goes out of scope: ~Value() { clear(); }
Destroy ==
    \E d \in SlotIds :
        /\ last.n < MaxOps
        /\ slots[d].live
        /\ slots' = [slots EXCEPT ![d] = DeadSlot]
        /\ heap' = clear(slots[d].obj, heap)
        /\ last' = Last("destroy", d, d)
        /\ UNCHANGED <<parserVars, valueVars>>

\* what a read through a pointer that points to no container of its type can
\* do: the process stops at the invalid access, or container code runs on
\* memory that holds no such container
UndefinedOutcomes == {"crash", "corrupt"}

\* dst.append(src) with src an lvalue: append(const Value & o)
\* { return append(Value(o)); }, which runs append(Value && o) on the temporary
\* tmp = Value(o).  On a NUL receiver the initializer list holds a Value moved
\* from tmp, the new Array holds a copy of that one, and the list's Value is
\* destroyed; on an ARRAY push_back copies tmp; tmp is destroyed at the end.
\* src itself is never changed.
\* append(Value && o): what it returns on a receiver of tag ty
append_returns(ty) == ty = "NUL" \/ ty = "ARRAY"

AppendValue ==
    \E d \in SlotIds, s \in SlotIds :
        LET tmp == copy(slots[s].obj, heap)
            elem == copy(tmp.obj, tmp.heap)
            dobj == slots[d].obj
            arr == heap[dobj.value_]
            onNull == Append(clear(tmp.obj, elem.heap), Cell("array", <<elem.obj>>))
            onArray == [clear(tmp.obj, elem.heap) EXCEPT
                          ![dobj.value_].data = Append(arr.data, elem.obj)]
            h2 == IF dobj.type_ = "NUL" THEN onNull
                  ELSE IF dobj.type_ = "ARRAY" THEN onArray
                  ELSE clear(tmp.obj, tmp.heap)
        IN  /\ last.n < MaxOps
            /\ slots[d].live
            /\ slots[s].live
            /\ Len(h2) <= MaxCells
            /\ dobj.type_ = "ARRAY" => Len(arr.data) < MaxElems
            /\ slots' = IF dobj.type_ = "NUL"
                        THEN [slots EXCEPT ![d] = Slot(Obj("ARRAY", Len(h2)))]
                        ELSE slots
            /\ heap' = h2
            /\ last' = [returned |-> append_returns(dobj.type_),
                         dst_before |-> value_of(dobj, heap), arg |-> "lvalue"]
                        @@ [Last("append", d, s) EXCEPT !.op =
                              IF dobj.type_ \in {"NUL", "ARRAY"} THEN "append" ELSE "append_refused"]
            /\ UNCHANGED <<parserVars, valueVars>>

\* dst.append(std::move(src)): append(Value && o) bound to the variable src.
\* On a NUL receiver type_ = ARRAY comes first, then new Array{std::move(o)}:
\* the Value of the initializer list is move-constructed from src, which
\* becomes Null; the new Array holds a copy of that Value, and the list's Value
\* is destroyed, which releases the payload src owned.  On an ARRAY receiver
\* push_back(o) copies (o is an lvalue inside append) and src keeps its
\* payload; on any other tag nothing happens.
\* dst.append(std::move(dst)) on a NUL receiver: the receiver is an ARRAY with
\* no Array behind it when the list's Value is moved from it, and the copy of
\* that Value reads *value_.a_ through a pointer that was never set.
AppendMove ==
    \E d \in SlotIds, s \in SlotIds, outcome \in UndefinedOutcomes :
        LET dobj == slots[d].obj
            sobj == slots[s].obj
            arr == heap[dobj.value_]
            elem == copy(sobj, heap)
            onNull == Append(clear(sobj, elem.heap), Cell("array", <<elem.obj>>))
            onArray == [elem.heap EXCEPT ![dobj.value_].data = Append(arr.data, elem.obj)]
            h2 == IF dobj.type_ = "NUL" THEN onNull
                  ELSE IF dobj.type_ = "ARRAY" THEN onArray
                  ELSE heap
            moved == [slots EXCEPT ![s] = Slot(NullObj)]
        IN  /\ last.n < MaxOps
            /\ slots[d].live
            /\ slots[s].live
            /\ IF dobj.type_ = "NUL" /\ d = s
               THEN /\ UNCHANGED <<slots, heap>>
                    /\ last' = [dst_before |-> value_of(dobj, heap), outcome |-> outcome,
                                attempted |-> "append", arg |-> "rvalue"]
                               @@ [Last("append_undefined", d, s) EXCEPT !.n = MaxOps]
               ELSE /\ Len(h2) <= MaxCells
                    /\ dobj.type_ = "ARRAY" => Len(arr.data) < MaxElems
                    /\ slots' = IF dobj.type_ = "NUL"
                                THEN [moved EXCEPT ![d] = Slot(Obj("ARRAY", Len(h2)))]
                                ELSE slots
                    /\ heap' = h2
                    /\ last' = [returned |-> append_returns(dobj.type_),
                                dst_before |-> value_of(dobj, heap), arg |-> "rvalue"]
                               @@ [Last("append", d, s) EXCEPT !.op =
                                     IF dobj.type_ \in {"NUL", "ARRAY"}
                                     THEN "append" ELSE "append_refused"]
            /\ UNCHANGED <<parserVars, valueVars>>

\* the keys a client indexes with
IndexKeys == {<<CH_a>>, <<CH_b>>}

\* Value & operator[](const std::string & key) is defined on these tags only
index_key_defined(o) == o.type_ = "NUL" \/ o.type_ = "OBJECT"

\* on any other tag (*value_.o_)[key] reads a union member that is not the
\* active one and uses it as an Object *: one of UndefinedOutcomes

\* Value & operator[](const std::string & key) on a NUL or OBJECT receiver:
\* the receiver (an OBJECT now) and the heap with an entry for key
index_key_mut(o, h, key) ==
    LET viv == IF o.type_ = "NUL"
               THEN [obj |-> Obj("OBJECT", Len(h) + 1), heap |-> Append(h, Cell("object", <<>>))]
               ELSE [obj |-> o, heap |-> h]
        c == viv.obj.value_
        data == viv.heap[c].data
    IN  [obj |-> viv.obj,
         heap |-> IF MapHas(data, key) THEN viv.heap
                  ELSE [viv.heap EXCEPT ![c].data = MapPut(data, key, NullObj)]]

\* the operation ran into undefined behaviour: nothing after it is defined
Undefined(op, d, s, key, outcome) ==
    [key |-> key, dst_before |-> value_of(slots[d].obj, heap), outcome |-> outcome,
     attempted |-> op]
    @@ [Last("index_undefined", d, s) EXCEPT !.n = MaxOps]

\* dst[key]; on a Value that is not const (the overload chosen for every
\* Value that is not const, also when the element is only read)
IndexMutable ==
    \E d \in SlotIds, key \in IndexKeys, outcome \in UndefinedOutcomes :
        LET dobj == slots[d].obj
            ix == index_key_mut(dobj, heap, key)
        IN  /\ last.n < MaxOps
            /\ slots[d].live
            /\ IF index_key_defined(dobj)
               THEN /\ Len(ix.heap) <= MaxCells
                    /\ slots' = [slots EXCEPT ![d] = Slot(ix.obj)]
                    /\ heap' = ix.heap
                    /\ last' = [key |-> key, dst_before |-> value_of(dobj, heap),
                                read |-> value_of(MapGet(ix.heap[ix.obj.value_].data, key),
                                                  ix.heap)]
                               @@ Last("index", d, d)
               ELSE /\ UNCHANGED <<slots, heap>>
                    /\ last' = Undefined("index", d, d, key, outcome)
            /\ UNCHANGED <<parserVars, valueVars>>

\* const Value & r = dst; r[key];  the const overload
IndexConst ==
    \E d \in SlotIds, key \in IndexKeys :
        /\ last.n < MaxOps
        /\ slots[d].live
        /\ UNCHANGED <<slots, heap>>
        /\ last' = [key |-> key, dst_before |-> value_of(slots[d].obj, heap),
                    read |-> index_key(value_of(slots[d].obj, heap), key)]
                   @@ Last("index_const", d, d)
        /\ UNCHANGED <<parserVars, valueVars>>

\* dst[key] = src: operator[] on dst, then operator=(const Value &) on the
\* element it returned
IndexAssign ==
    \E d \in SlotIds, s \in SlotIds, key \in IndexKeys, outcome \in UndefinedOutcomes :
        LET dobj == slots[d].obj
            ix == index_key_mut(dobj, heap, key)
            c == ix.obj.value_
            indexed == [slots EXCEPT ![d] = Slot(ix.obj)]
            elem == MapGet(ix.heap[c].data, key)
            h1 == [clear(elem, ix.heap) EXCEPT ![c].data = MapPut(@, key, NullObj)]
            r == copy(indexed[s].obj, h1)
            h2 == [r.heap EXCEPT ![c].data = MapPut(@, key, r.obj)]
        IN  /\ last.n < MaxOps
            /\ slots[d].live
            /\ slots[s].live
            /\ IF ~index_key_defined(dobj)
               THEN /\ UNCHANGED <<slots, heap>>
                    /\ last' = Undefined("index_assign", d, s, key, outcome)
               ELSE IF d = s
               THEN \* v[key] = v: copy(o) first makes the element share the map
                    \* of v, then copies that map, which holds the element:
                    \* the copy recurses until the stack is exhausted
                    /\ UNCHANGED <<slots, heap>>
                    /\ last' = Undefined("index_assign", d, s, key, "crash")
               ELSE /\ Len(h2) <= MaxCells
                    /\ slots' = indexed
                    /\ heap' = h2
                    /\ last' = [key |-> key, dst_before |-> value_of(dobj, heap)]
                               @@ Last("index_assign", d, s)
            /\ UNCHANGED <<parserVars, valueVars>>

NextHeap ==
    \/ Construct
    \/ CopyConstruct
    \/ CopyAssign
    \/ MoveConstruct
    \/ MoveAssign
    \/ Destroy
    \/ AppendValue
    \/ AppendMove

InitHeap ==
    /\ slots = [s \in SlotIds |-> DeadSlot]
    /\ heap = <<>>
    /\ last = [op |-> "none", n |-> 0]
    /\ IdleParser
    /\ IdleValue

SpecHeap == InitHeap /\ [][NextHeap]_vars

(***************************************************************************)
(* The mutators append and operator[] (and the const operator[]) applied   *)
(* to Values a client holds: slot 1 is the receiver the client built, slot *)
(* 2 an argument; every operation takes any of the two as receiver and as  *)
(* argument.                                                               *)
(***************************************************************************)
NextMutate ==
    \/ AppendValue
    \/ AppendMove
    \/ IndexMutable
    \/ IndexConst
    \/ IndexAssign

\* null, 1, 1.5, true, "a", ["b"], {"a": 1}, {"a": "a", "b": [1]}
MutateReceivers ==
    {Null, Integer(1), Number(Dec(15, -1)), Bool(TRUE), String(<<CH_a>>),
     ArrayOf(<<String(<<CH_b>>)>>),
     ObjectOf(<<<< <<CH_a>>, Integer(1)>>>>),
     ObjectOf(<<<< <<CH_a>>, String(<<CH_a>>)>>, << <<CH_b>>, ArrayOf(<<Integer(1)>>)>>>>)}

\* 2, "b", null
MutateArguments == {Integer(2), String(<<CH_b>>), Null}

\* Value v1(receiver), v2(argument); the other variables are out of scope.
\* The client has used two of the operations it performs.
InitMutate ==
    /\ \E v \in MutateReceivers, a \in MutateArguments :
          LET r1 == new_value(v, <<>>)
              r2 == new_value(a, r1.heap)
          IN  /\ slots = [s \in SlotIds |->
                            IF s = 1 THEN Slot(r1.obj)
                            ELSE IF s = 2 THEN Slot(r2.obj) ELSE DeadSlot]
              /\ heap = r2.heap
    /\ last = [op |-> "none", n |-> 2]
    /\ IdleParser
    /\ IdleValue

SpecMutate == InitMutate /\ [][NextMutate]_vars

(***************************************************************************)
(* Claims about parse / parse_multi failures                               *)
(***************************************************************************)
ParseDone == pc = "done" /\ mode = "parse"
MultiDone == pc = "done" /\ mode = "multi"

\* C1: whenever parse(text, err) fails, whatever the failure and wherever it
\* happens (the top-level value included), the Value returned is Null and err
\* is a non-empty message.
C1_FailedParseReturnsNull ==
    (ParseDone /\ failed) => (result = Null /\ err # NoMsg)

\* some container under construction, or parse_multi's vector, gets longer
ContainerGrows ==
    \/ Len(vals') > Len(vals)
    \/ \E k \in 1..Min(Len(stack), Len(stack')) : Len(stack'[k].data) > Len(stack[k].data)

\* C2 as stated: the first failure sets message and flag, later calls of fail
\* leave the message alone, the flag stays set, and no element is added to
\* any container once the flag is set.
C2_NoElementAfterFailure ==
    [][ /\ (~failed /\ failed') => err' # NoMsg
        /\ failed => (failed' /\ err' = err /\ ~ContainerGrows) ]_vars

\* the one store of the failed call's result into the innermost container
StoresFailedResult(k) ==
    /\ k = Len(stack)
    /\ pc = "return"
    /\ stack'[k].data = IF stack[k].kind = "array"
                        THEN Append(stack[k].data, ret)
                        ELSE MapPut(stack[k].data, stack[k].key, ret)

\* C2 as amended: the first failure sets message and flag; once the flag is
\* set the message never changes, the flag stays set, no container is opened
\* and nothing more is parsed; the only element still added is the value the
\* failed parse_json call returned, which its caller stores before it tests
\* the flag: into the enclosing array or object, which is then discarded (the
\* caller returns Null), and once at the end of parse_multi's vector, after
\* which parse_multi stops.
C2_StickyFirstError ==
    [][ /\ (~failed /\ failed') => err' # NoMsg
        /\ failed =>
            /\ failed'
            /\ err' = err
            /\ Len(stack') <= Len(stack)
            /\ \A k \in 1..Len(stack') :
                   stack'[k].data = stack[k].data \/ StoresFailedResult(k)
            /\ pc \in {"array_next", "object_next"} => (stack' = Pop /\ ret' = Null)
            /\ vals' = vals \/ (vals' = Append(vals, ret) /\ pc' = "loop")
            /\ pc = "loop" => pc' = "done" ]_vars

\* parse() called fail for trailing garbage after an earlier failure, and the
\* first message stayed
C2_Witness ==
    /\ ParseDone
    /\ failed
    /\ i # Len(str)
    /\ err.text # "unexpected trailing "

\* C3: a document whose containers are nested exactly 200 deep parses, one
\* whose containers are nested 201 deep fails with "exceeded maximum nesting
\* depth", whatever the innermost container holds and whatever follows.
C3_DepthGuard ==
    (pc = "done" /\ doc.type = "NEST") =>
        /\ doc.n <= max_depth => ~failed
        /\ doc.n > max_depth =>
               (failed /\ err = Msg("exceeded maximum nesting depth", <<>>))

\* C4: for every Value v, parse(v.to_string()) succeeds and equals v under
\* operator== (a String comes back byte for byte).
C4_RoundTrip ==
    (ParseDone /\ doc.type = "VALUE") =>
        /\ ~failed
        /\ op_eq(result, doc.v)
        /\ doc.v.type = "STRING" => result = doc.v

\* the part of C4 about strings alone: parsing escape(s) gives back s
C4_StringRoundTrip ==
    (ParseDone /\ doc.type = "VALUE" /\ doc.v.type = "STRING") => (~failed /\ result = doc.v)

\* a number directly followed by a document that starts with a digit
NumbersAdjacent(d) ==
    /\ d.sep = <<>>
    /\ \E k \in 1..(Len(d.vs) - 1) :
          is_number(d.vs[k]) /\ IsDigit(to_string(d.vs[k + 1])[1])

MultiExpected(d) == d.vs \o (IF d.bad THEN <<Null>> ELSE <<>>)

\* C5 as stated: whatever the documents and with or without a separator,
\* parse_multi returns the documents before the first failure, in order, and
\* one extra element exactly when a failure occurred.
C5_NoSeparatorNeeded ==
    (MultiDone /\ doc.type = "MULTI") =>
        (vals = MultiExpected(doc) /\ failed = doc.bad)

\* C5 (amended): the same, except that a number directly followed by a
\* document starting with a digit reads as one number; nothing is parsed
\* after the first failure, a failure leaves at least the failing call's
\* result in the vector, and err changes only when a call fails ("" gives the
\* empty sequence and leaves err alone).
C5_ParseMulti ==
    /\ [](MultiDone =>
            /\ (doc.type = "MULTI" /\ ~NumbersAdjacent(doc)) =>
                  (vals = MultiExpected(doc) /\ failed = doc.bad)
            /\ failed => Len(vals) >= 1
            /\ ~failed => i = Len(str)
            /\ str = <<>> => (vals = <<>> /\ ~failed))
    /\ [][mode = "multi" =>
            /\ ~failed' => err' = err
            /\ vals' # vals => (pc = "return" /\ vals' = Append(vals, ret))
            /\ (failed /\ pc = "loop") => pc' = "done"]_vars

\* "1 2 3" has been read as [1, 2, 3]
C5_Witness ==
    /\ MultiDone /\ doc.type = "MULTI" /\ doc.sep = <<CH_SPACE>> /\ ~doc.bad
    /\ vals = <<Integer(1), Integer(2), Integer(3)>>
    /\ err = Msg("stale", <<>>)

\* the number a numeric Value holds, exactly: the long itself, not its double
\* (as m * 2^e with m odd, of any size; the double itself for a NUMBER)
ExactValue(v) ==
    IF v.type = "NUMBER" THEN v.d
    ELSE IF IsBig(v) THEN Dyadic(v.wide.neg, v.wide.mag, 0, 16)
    ELSE IF v.l = 0 THEN Zero(FALSE)
    ELSE Dyadic(v.l < 0, BigOfNat(Abs(v.l)), 0, 16)

RECURSIVE SameContent(_, _)
\* two numbers with the same numeric value, or the same tag and equal payloads
SameContent(x, y) ==
    IF is_number(x) /\ is_number(y) THEN double_eq(ExactValue(x), ExactValue(y))
    ELSE /\ x.type = y.type
         /\ CASE x.type = "NUL" -> TRUE
              [] x.type = "BOOL" -> x.b = y.b
              [] x.type = "STRING" -> x.s = y.s
              [] x.type = "ARRAY" ->
                    /\ Len(x.a) = Len(y.a)
                    /\ \A k \in 1..Len(x.a) : SameContent(x.a[k], y.a[k])
              [] x.type = "OBJECT" ->
                    /\ Len(x.o) = Len(y.o)
                    /\ \A k \in 1..Len(x.o) :
                          x.o[k][1] = y.o[k][1] /\ SameContent(x.o[k][2], y.o[k][2])
              [] OTHER -> FALSE

\* C6: two numeric Values, whatever their tags, are == exactly when their
\* numeric values are equal; any other two Values are == exactly when their
\* tags match and their payloads are equal; != is the negation of ==.
C6_Equality ==
    cmp.done =>
        /\ cmp.eq_ab <=> SameContent(lhs, rhs)
        /\ cmp.ne_ab <=> ~cmp.eq_ab

\* x before y lexicographically, the elements compared with lt and eq
LexLess(x, y, lt(_, _), eq(_, _)) ==
    \/ Len(x) < Len(y) /\ \A j \in 1..Len(x) : eq(x[j], y[j])
    \/ \E k \in 1..Min(Len(x), Len(y)) :
          /\ \A j \in 1..(k - 1) : eq(x[j], y[j])
          /\ lt(x[k], y[k])

pair_eq(x, y) == x[1] = y[1] /\ op_eq(x[2], y[2])

\* the order of the tags that are not numeric
TagOrder(ty) ==
    CASE ty = "NUL" -> 0
      [] ty = "BOOL" -> 1
      [] ty = "STRING" -> 2
      [] ty = "ARRAY" -> 3
      [] ty = "OBJECT" -> 4

\* a < b as the order on Values other than two numbers prescribes it
OrderedByTagThenPayload(x, y) ==
    IF x.type # y.type THEN TagOrder(x.type) < TagOrder(y.type)
    ELSE CASE x.type = "NUL" -> FALSE
           [] x.type = "BOOL" -> ~x.b /\ y.b
           [] x.type = "STRING" -> LexLess(x.s, y.s, LAMBDA c, d : c < d, LAMBDA c, d : c = d)
           [] x.type = "ARRAY" -> LexLess(x.a, y.a, op_lt, op_eq)
           [] x.type = "OBJECT" -> LexLess(x.o, y.o, pair_lt, pair_eq)

\* trichotomy and transitivity of operator< with operator==
StrictTotalOrder ==
    /\ (cmp.lt_ab /\ ~cmp.eq_ab /\ ~cmp.lt_ba)
       \/ (~cmp.lt_ab /\ cmp.eq_ab /\ ~cmp.lt_ba)
       \/ (~cmp.lt_ab /\ ~cmp.eq_ab /\ cmp.lt_ba)
    /\ (cmp.lt_ab /\ cmp.lt_bc) => cmp.lt_ac
    /\ (cmp.eq_ab /\ cmp.eq_bc) => cmp.eq_ac

\* C7: operator< is a strict total order consistent with operator==; two
\* numbers are ordered by their numeric value, two Values of different
\* non-numeric tags by Null < Bool < String < Array < Object, two of the same
\* tag by payload.
C7_TotalOrder ==
    cmp.done =>
        /\ StrictTotalOrder
        /\ (is_number(lhs) /\ is_number(rhs)) =>
              (cmp.lt_ab <=> double_less(ExactValue(lhs), ExactValue(rhs)))
        /\ (~is_number(lhs) /\ ~is_number(rhs)) =>
              (cmp.lt_ab <=> OrderedByTagThenPayload(lhs, rhs))

\* the part of C7 that does not look inside a long: the same with two numbers
\* ordered by number_value()
C7_TotalOrderOnDoubles ==
    cmp.done =>
        /\ StrictTotalOrder
        /\ (is_number(lhs) /\ is_number(rhs)) =>
              (cmp.lt_ab <=> double_less(number_value(lhs), number_value(rhs)))
        /\ (~is_number(lhs) /\ ~is_number(rhs)) =>
              (cmp.lt_ab <=> OrderedByTagThenPayload(lhs, rhs))

\* C8: has_shape returns true exactly when the receiver is an Object that has,
\* for every (name, tag) of types, NUL included, a field called name whose tag
\* is tag; when it returns false err holds a message.
C8_HasShape ==
    hs.done =>
        /\ hs.ok <=> /\ is_object(lhs)
                     /\ \A k \in 1..Len(shape) :
                           /\ MapHas(lhs.o, shape[k][1])
                           /\ MapGet(lhs.o, shape[k][1]).type = shape[k][2]
        /\ ~hs.ok => hs.err # NoMsg

RECURSIVE Reach(_, _)
\* the cells reached from a Value object through its pointers
Reach(o, h) ==
    IF ~HasPayload(o) THEN {}
    ELSE {o.value_} \cup
         UNION {Reach(ElemObjs(h[o.value_])[k], h) : k \in 1..Len(ElemObjs(h[o.value_]))}

\* C9: after a copy construction or a copy assignment dst = src, whatever the
\* two Values, dst holds what src held before, src is unchanged, and the two
\* share no payload.
C9_CopyDeepClones ==
    last.op \in {"copy_construct", "copy_assign"} =>
        /\ value_of(slots[last.dst].obj, heap) = last.src_before
        /\ value_of(slots[last.src].obj, heap) = last.src_before
        /\ last.dst # last.src =>
              Reach(slots[last.dst].obj, heap) \cap Reach(slots[last.src].obj, heap) = {}

\* the part of C9 about two different variables
C9_CopyBetweenVariables ==
    (last.op \in {"copy_construct", "copy_assign"} /\ last.dst # last.src) => C9_CopyDeepClones

\* the live Values that point to cell a: variables, and elements of live cells
Owners(a) ==
    {<<0, s>> : s \in {s \in SlotIds :
        slots[s].live /\ HasPayload(slots[s].obj) /\ slots[s].obj.value_ = a}}
    \cup UNION {{<<c, k>> : k \in {k \in 1..Len(ElemObjs(heap[c])) :
                    /\ heap[c].state = "live"
                    /\ HasPayload(ElemObjs(heap[c])[k])
                    /\ ElemObjs(heap[c])[k].value_ = a}} : c \in 1..Len(heap)}

\* C10: every payload ever allocated is owned by exactly one live Value or has
\* been released exactly once; a move leaves the source Null and hands its
\* payload to the destination.
C10_ExclusiveOwnership ==
    /\ \A a \in 1..Len(heap) :
          \/ heap[a].state = "live" /\ Cardinality(Owners(a)) = 1
          \/ heap[a].state = "freed" /\ heap[a].deletes = 1 /\ Owners(a) = {}
    /\ last.op \in {"move_construct", "move_assign"} =>
          /\ slots[last.src].obj = NullObj
          /\ last.dst # last.src => slots[last.dst].obj = last.src_obj

\* no payload is shared, released twice or pointed to after its release
\* (what C10 says, leaks aside)
C10_NoSharingNoDoubleRelease ==
    \A a \in 1..Len(heap) :
        \/ heap[a].state = "live" /\ Cardinality(Owners(a)) <= 1
        \/ heap[a].state = "freed" /\ heap[a].deletes = 1 /\ Owners(a) = {}

(***************************************************************************)
(* Claims about the mutators and the accessors                             *)
(***************************************************************************)
\* what the receiver of the last operation holds now
Receiver == value_of(slots[last.dst].obj, heap)

\* the entries of an Object other than the one for key
OtherEntries(o, key) == {o[k] : k \in {k \in 1..Len(o) : o[k][1] # key}}

\* v[key] = x on a Null or Object receiver, x another variable than v: the
\* receiver is an Object that holds x under key and, under every other key,
\* what it held before; x is unchanged
IndexedWriteDone ==
    /\ Receiver.type = "OBJECT"
    /\ MapHas(Receiver.o, last.key)
    /\ MapGet(Receiver.o, last.key) = last.src_before
    /\ value_of(slots[last.src].obj, heap) = last.src_before
    /\ OtherEntries(Receiver.o, last.key) =
          (IF last.dst_before.type = "OBJECT"
           THEN OtherEntries(last.dst_before.o, last.key) ELSE {})

\* C11: v[key] = x on a mutable Value: a Null v becomes an Object holding key;
\* in an Object v the entry for key is created or overwritten and no other
\* key changes; on any other tag the operation is rejected: the payload is
\* never used as an Object and v keeps its tag and payload.
C11_IndexedWrite ==
    /\ last.op = "index_assign" => IndexedWriteDone
    /\ last.op = "index_undefined" =>
          (last.outcome = "rejected" /\ Receiver = last.dst_before)

\* the part of C11 about Null and Object receivers
C11_IndexedWriteOnNullOrObject ==
    last.op = "index_assign" =>
        (last.dst_before.type \in {"NUL", "OBJECT"} /\ IndexedWriteDone)

\* C12: append(x) on a Null receiver makes it the Array [x] and returns true;
\* on an Array it adds x after the elements it had, in their order, and
\* returns true; on any other tag it returns false and the receiver keeps its
\* tag and payload.  Every call of append is covered, the one whose behaviour
\* is undefined included: there the call has to return true and leave [x] too.
C12_Append ==
    /\ last.op \in {"append", "append_refused"} =>
          /\ last.dst_before.type = "NUL" =>
                (last.returned /\ Receiver = ArrayOf(<<last.src_before>>))
          /\ last.dst_before.type = "ARRAY" =>
                (last.returned /\ Receiver = ArrayOf(Append(last.dst_before.a, last.src_before)))
          /\ last.dst_before.type \notin {"NUL", "ARRAY"} =>
                (~last.returned /\ Receiver = last.dst_before)
    /\ (last.op = "append_undefined" /\ last.attempted = "append") =>
          (last.outcome = "returned_true" /\ Receiver = ArrayOf(<<last.src_before>>))

\* the part of C12 that holds: every append whose rvalue argument is not the
\* Null receiver itself
C12_AppendOfAnotherValue ==
    last.op \in {"append", "append_refused"} => C12_Append

\* a third element was appended to an Array, after the two it had
C12_Witness ==
    /\ last.op = "append"
    /\ last.returned
    /\ last.dst_before = ArrayOf(<<String(<<CH_b>>), Integer(2)>>)
    /\ Receiver = ArrayOf(<<String(<<CH_b>>), Integer(2), Integer(2)>>)

\* C13: reading v[key] yields the field, or Null when v is no Object or has
\* no such key, and leaves v as it was (same tag, same keys, same text);
\* the other accessors return the payload when the tag matches and 0, false,
\* the empty string, an empty container or Null otherwise.
C13_ReadAccess ==
    /\ last.op \in {"index", "index_const"} =>
          /\ last.read = index_key(last.dst_before, last.key)
          /\ Receiver = last.dst_before
          /\ to_string(Receiver) = to_string(last.dst_before)
    /\ (last.op = "index_undefined" /\ last.attempted = "index") =>
          (last.outcome = "returned_null" /\ Receiver = last.dst_before)
    /\ acc.done =>
          /\ acc.after = acc.before
          /\ acc.number_value = (IF lhs.type = "NUMBER" THEN lhs.d
                                 ELSE IF lhs.type = "INTEGER" THEN number_value(lhs)
                                 ELSE Zero(FALSE))
          /\ lhs.type = "INTEGER" => acc.int_value = lhs
          /\ ~is_number(lhs) => acc.int_value = Integer(0)
          /\ acc.bool_value = (lhs.type = "BOOL" /\ lhs.b)
          /\ acc.string_value = (IF lhs.type = "STRING" THEN lhs.s ELSE <<>>)
          /\ acc.array_value = (IF lhs.type = "ARRAY" THEN lhs.a ELSE <<>>)
          /\ acc.object_value = (IF lhs.type = "OBJECT" THEN lhs.o ELSE <<>>)
          /\ acc.size = (IF lhs.type = "ARRAY" THEN Len(lhs.a) ELSE 0)
          /\ \A k \in ReadPositions :
                acc.at[k] = (IF lhs.type = "ARRAY" /\ k + 1 <= Len(lhs.a)
                             THEN lhs.a[k + 1] ELSE Null)
          /\ \A k \in ReadKeys :
                acc.key[k] = (IF lhs.type = "OBJECT" /\ MapHas(lhs.o, k)
                              THEN MapGet(lhs.o, k) ELSE Null)

\* the part of C13 about the accessors that are const
C13_ConstReadAccess ==
    (last.op = "index_const" \/ acc.done) => C13_ReadAccess

(***************************************************************************)
(* Claims about number literals                                            *)
(***************************************************************************)
\* the Value parse returned, or the first one parse_multi returned
FirstParsed == IF mode = "parse" THEN result ELSE vals[1]

\* the number a run of n digits stands for
RECURSIVE RunValue(_)
RunValue(n) == IF n = 0 THEN 0 ELSE RunValue(n - 1) * 10 + (((n - 1) % 9) + 1)

\* no fraction and no exponent follows the digits
IsIntegerLiteral == doc.tail \in {<<>>, <<CH_SPACE>>}

\* C14: a literal without fraction and exponent whose digits are at most 9,
\* with or without a leading '-', parses to an Integer of exactly that value;
\* a literal with a fraction, an exponent or more digits parses to a Number.
C14_IntegerFastPath ==
    (pc = "done" /\ doc.type = "LITERAL") =>
        /\ ~failed
        /\ FirstParsed = (IF IsIntegerLiteral /\ doc.digits <= digits10
                          THEN Integer(IF doc.neg THEN -RunValue(doc.digits)
                                       ELSE RunValue(doc.digits))
                          ELSE Number(strtod(str, 0)))

\* the same with the length the code measures: the characters of the
\* literal, the '-' included, are at most 9
C14_IntegerFastPathCountsSign ==
    (pc = "done" /\ doc.type = "LITERAL") =>
        /\ ~failed
        /\ FirstParsed =
              (IF IsIntegerLiteral /\ doc.digits + (IF doc.neg THEN 1 ELSE 0) <= digits10
               THEN Integer(IF doc.neg THEN -RunValue(doc.digits) ELSE RunValue(doc.digits))
               ELSE Number(strtod(str, 0)))

(***************************************************************************)
(* Claims about \u escapes                                                 *)
(***************************************************************************)
IsHigh(it) == it.kind = "u" /\ it.cp >= 55296 /\ it.cp <= 56319
IsLow(it) == it.kind = "u" /\ it.cp >= 56320 /\ it.cp <= 57343

\* the UTF-8 bytes of a code point below 0x110000
Utf8(cp) ==
    IF cp <= 127 THEN <<cp>>
    ELSE IF cp <= 2047 THEN <<192 + (cp \div 64), 128 + (cp % 64)>>
    ELSE IF cp <= 65535
    THEN <<224 + (cp \div 4096), 128 + ((cp \div 64) % 64), 128 + (cp % 64)>>
    ELSE <<240 + (cp \div 262144), 128 + ((cp \div 4096) % 64), 128 + ((cp \div 64) % 64),
           128 + (cp % 64)>>

\* what the items of a string stand for, read from left to right: a high
\* surrogate and the low surrogate right after it are one code point, every
\* other item is its own
RECURSIVE Decoded(_)
Decoded(items) ==
    IF items = <<>> THEN <<>>
    ELSE IF Len(items) >= 2 /\ IsHigh(items[1]) /\ IsLow(items[2])
    THEN Utf8(65536 + (items[1].cp - 55296) * 1024 + (items[2].cp - 56320))
         \o Decoded(Tail(Tail(items)))
    ELSE Utf8(items[1].cp) \o Decoded(Tail(items))

\* C15: a \u high surrogate immediately followed by a \u low surrogate gives
\* the one 4-byte UTF-8 sequence of the code point they stand for; every
\* other \uXXXX (a high surrogate followed by anything else, a lone low
\* surrogate, \u0000) is emitted once as the UTF-8 sequence of its own code
\* point, in input order, nothing dropped and nothing duplicated.
C15_UnicodeEscapes ==
    (pc = "done" /\ doc.type = "ESCAPES") =>
        (~failed /\ FirstParsed = String(Decoded(doc.items)))

\* \ud83d\ud83d\udca9: the first high surrogate alone, then the pair as U+1F4A9
C15_Witness ==
    /\ ParseDone
    /\ ~failed
    /\ doc.type = "ESCAPES"
    /\ Len(doc.items) = 3
    /\ result = String(<<237, 160, 189, 240, 159, 146, 169>>)

(***************************************************************************)
(* Claims about termination and the cursor                                 *)
(***************************************************************************)
\* C16: parse and parse_multi terminate on every text; no step moves the
\* cursor back, and every pass through parse_json, the array loop and the
\* object loop (hence every iteration of the parse_multi loop, which calls
\* parse_json) moves it forward or ends with failed set; parse_multi returns
\* at most as many values as the text has characters.
C16_Terminates ==
    /\ <>(pc = "done")
    /\ [](Len(vals) <= Len(str))
    /\ [][/\ i' >= i
          /\ pc \in {"json", "array_next", "object_next"} => (i' > i \/ failed')]_vars

\* parse_multi has gone through its loop three times and stopped at the end
\* of the text
C16_Witness ==
    /\ MultiDone
    /\ ~failed
    /\ Len(vals) = 3
    /\ i = Len(str)

\* the cursor a pushback (i--) starts from, for each pushback the parser is
\* about to make in this state: in parse_json before parse_number, in expect,
\* and at the head of the array loop (0 when it makes none)
PushbackFrom ==
    LET t == get_next_token(str, P)
        t2 == get_next_token(str, t.p)
    IN  IF pc = "json" /\ ~depth_exceeded(depth) /\ ~t.p.failed
        THEN IF t.ch = CH_MINUS \/ IsDigit(t.ch) \/ t.ch = CH_t \/ t.ch = CH_f \/ t.ch = CH_n
             THEN {t.p.i}
             ELSE IF t.ch = CH_LBRACKET /\ t2.ch # CH_RBRACKET THEN {t2.p.i}
             ELSE {}
        ELSE IF pc = "array_next" /\ ~failed /\ t.ch = CH_COMMA THEN {t2.p.i}
        ELSE {}

\* C17: the cursor stays between 0 and the length of the text; no pushback
\* starts from 0, also when the get_next_token before it failed at the end of
\* the input without consuming a character; the i += 4 of a \u escape does
\* not pass the end (the cursor only grows inside parse_string, so where
\* parse_string leaves it bounds where the escape left it).
C17_CursorInBounds ==
    /\ 0 <= i
    /\ i <= Len(str)
    /\ \A k \in PushbackFrom : 1 <= k /\ k <= Len(str)

\* the text "[": get_next_token failed at the end of the input, the array
\* loop pushed the cursor back onto the bracket and called parse_json
C17_Witness ==
    /\ str = <<CH_LBRACKET>>
    /\ pc = "json"
    /\ stack # <<>>
    /\ failed
    /\ i = 0

====
